---------------------------- MODULE Spec2Model ----------------------------
(***************************************************************************)
(* The Fossil source build step of buildbot-fossil (buildbot_fossil/       *)
(* steps.py) as a state machine.                                           *)
(*                                                                         *)
(* One run of the step is a coroutine: it issues one remote command,       *)
(* suspends until the worker reports completion, and resumes.  The model   *)
(* has one action per resumption point (named after the method that is     *)
(* resumed) plus the worker's action runCommand, which completes the       *)
(* command in flight with a nondeterministic result.                       *)
(***************************************************************************)
EXTENDS Integers, Sequences, FiniteSets, TLC

\* ------------------------------------------------------------ constants

SUCCESS == "success"
FAILURE == "failure"
CANCELLED == "cancelled"
EXCEPTION == "exception"

\* First Fossil version that supports `open --workdir`
HAS_OPEN_WORKDIR == 21200

\* Faulty variant of possible_methods: clobber is forgotten.
possible_methods_without_clobber == {"fresh", "copy"}

possible_methods == {"fresh", "copy", "clobber"}

REPOURL == "https://fossil-scm.example/home"

\* A path or a label is the sequence of the pieces its text is made of, a
\* separator being a piece of its own: "build/wkdir" is <<"build", "/", "wkdir">>.
WORKDIR == <<"wkdir">>
BASEDIR == <<".">>

\* ------------------------------------------------------------ bounds

\* Largest number of tags a status output carries.
MaxTags == 2

\* ------------------------------------------------------------ inputs

\* Constructor arguments tried; "none" is Python's None, "other" and "bogus"
\* stand for any value outside the accepted ones.
Modes == {"incremental", "full", "other"}
Methods == {"none", "fresh", "copy", "clobber", "bogus"}

\* The workdir of the step: the default of the tests, and a nested one with
\* a trailing separator.
Workdirs == {WORKDIR, <<"build", "/", "wkdir", "/">>}

\* self.build.path_module: the path rules of the worker's platform.
PathModules == {"posixpath", "ntpath"}

\* run_vc arguments; "" is a falsy value (None or the empty string).
Branches == {"", "trunk"}
Revisions == {"", "abc123"}

RevIds == {"abc123", "9be9ce"}
Tags == {"trunk", "release"}

\* An optional value is a sequence of length at most one.
None == <<>>
Some(x) == <<x>>
Opt(S) == {None} \cup {Some(x) : x \in S}

\* The clone file a run may find at repopath, known by the remote URL it
\* records: no file, a clone of repourl, or a clone made from another URL.
CloneRemotes == Opt({REPOURL, "https://fossil-scm.example/elsewhere"})

\* The env and timeout arguments of the step: the defaults of the base class,
\* and values of the configuration.
DefaultEnv == None
DefaultTimeout == 1200
Envs == {DefaultEnv, Some("LANG=C")}
Timeouts == {DefaultTimeout, 60}

TagLists == UNION {[1..n -> Tags] : n \in 0..MaxTags}

NoOutput == [kind |-> "none"]

\* What `fossil version -verbose` may print: whether the output starts with
\* "This is fossil version ", the dotted numbers that follow, and the number
\* of a "JSON (API n)" line when there is one.
ProbeOutputs ==
    { [kind |-> "version", banner |-> FALSE, ver |-> <<>>, json |-> None],
      [kind |-> "version", banner |-> TRUE, ver |-> <<2>>, json |-> None],
      [kind |-> "version", banner |-> TRUE, ver |-> <<2, 15>>, json |-> Some(20120713)],
      [kind |-> "version", banner |-> TRUE, ver |-> <<2, 12>>, json |-> Some(0)],
      [kind |-> "version", banner |-> TRUE, ver |-> <<2, 12, 1>>, json |-> None],
      [kind |-> "version", banner |-> TRUE, ver |-> <<2, 8>>, json |-> Some(20120713)] }

\* What `fossil json status` may print: whether the text is JSON holding
\* payload.checkout, and that object's uuid and tags members when present.
JsonOutputs ==
    { [kind |-> "json", envelope |-> FALSE, uuid |-> None, tags |-> None] }
    \cup
    { [kind |-> "json", envelope |-> TRUE, uuid |-> u, tags |-> t] :
        u \in Opt(RevIds), t \in Opt(TagLists) }

\* What `fossil status --differ` may print: the hexadecimal token of the first
\* line "checkout: ..." and the comma separated list of the first line
\* "tags: ...", when such lines are present.  The tags pattern needs at least
\* one character, so a list that is present is not empty.
TextOutputs ==
    { [kind |-> "text", checkout |-> u, tags |-> t] :
        u \in Opt(RevIds), t \in Opt(TagLists \ {<<>>}) }

\* ------------------------------------------------------------ state

VARIABLES
    mode,            \* self.mode
    method,          \* self.method
    branch,          \* run_vc argument
    revision,        \* run_vc argument
    patch,           \* run_vc argument (whether a patch is supplied)
    workdir,         \* self.workdir
    path_module,     \* self.build.path_module
    clone_remote,    \* the clone file the run finds at repopath on the worker
    env,             \* self.env (<<>> is None)
    timeout,         \* self.timeout
    pc,              \* where the coroutine is suspended
    cmds,            \* the remote commands issued so far, with result and stdout
    inflight,        \* number of remote commands issued and not completed
    fossil_version,  \* self.fossil_version (-1 is None)
    fossil_json,     \* self.fossil_json (-1 is None)
    logEnviron,      \* self.logEnviron
    repopath,        \* self.repopath (<<>> is None)
    fc_method,       \* the local `method` of full_clean ("" outside of it)
    repo_status,     \* the local `repo_status` ("" is None)
    headers,         \* the header lines written to the stdio log
    props,           \* the source properties published
    patched,         \* whether self.patch(patch) ran
    outcome,         \* result of the step ("" while it runs)
    error,           \* message of the exception that ended the step
    rss,             \* FossilPoller.rss
    ppc,             \* where the poller is: its service state, or the request awaited
    last_fetch,      \* FossilPoller.last_fetch
    state,           \* the poller's persisted state: last_fetch and login_cookie
    http_cookie,     \* the Cookie header of FossilPoller._http (<<>> when unset)
    requests,        \* the HTTP requests of the current poll, with their responses
    feed,            \* the revisions the current poll fetched, as the server lists them
    prev_feed,       \* the revisions fetched by the last earlier poll that processed its feed
    before,          \* last_fetch and the persisted last_fetch when the current poll began
    emitted,         \* the revisions the current poll passed to addChange, in order
    polls,           \* number of polls started
    since_activate,  \* number of polls started since activate
    poll_result      \* how the last poll ended ("" while it runs or before any)

vars == <<mode, method, branch, revision, patch, workdir, path_module,
          clone_remote, env, timeout, pc, cmds,
          inflight,
          fossil_version, fossil_json, logEnviron, repopath, fc_method,
          repo_status, headers, props, patched, outcome, error,
          rss, ppc, last_fetch, state, http_cookie, requests, feed, prev_feed,
          before, emitted, polls, since_activate, poll_result>>

\* The variables of the build step, and those of the poller.
step == <<mode, method, branch, revision, patch, workdir, path_module,
          clone_remote, env, timeout, pc, cmds, inflight,
          fossil_version, fossil_json, logEnviron, repopath, fc_method,
          repo_status, headers, props, patched, outcome, error>>

poller == <<rss, ppc, last_fetch, state, http_cookie, requests, feed, prev_feed,
            before, emitted, polls, since_activate, poll_result>>

config == <<mode, method, branch, revision, patch, workdir, path_module,
            clone_remote, env, timeout>>
probe == <<fossil_version, fossil_json, repopath>>

Last == cmds[Len(cmds)]

NoProps == [got_revision |-> None, got_tags |-> None]

\* FossilPoller.__init__ on a master that has stored nothing for it.
NewPoller ==
    /\ ppc = "new"
    /\ last_fetch = {}
    /\ state = [last_fetch |-> None, login_cookie |-> None]
    /\ http_cookie = None
    /\ requests = <<>>
    /\ feed = <<>>
    /\ prev_feed = <<>>
    /\ before = [last_fetch |-> {}, state |-> None]
    /\ emitted = <<>>
    /\ polls = 0
    /\ since_activate = 0
    /\ poll_result = ""

Init ==
    /\ mode \in Modes
    /\ method \in Methods
    /\ branch \in Branches
    /\ revision \in Revisions
    /\ patch \in BOOLEAN
    /\ workdir \in Workdirs
    /\ path_module \in PathModules
    /\ clone_remote \in CloneRemotes
    /\ env = DefaultEnv /\ timeout = DefaultTimeout
    /\ logEnviron \in BOOLEAN
    /\ pc = "init"
    /\ cmds = <<>>
    /\ inflight = 0
    /\ fossil_version = -1
    /\ fossil_json = -1
    /\ repopath = None
    /\ fc_method = ""
    /\ repo_status = ""
    /\ headers = <<>>
    /\ props = NoProps
    /\ patched = FALSE
    /\ outcome = ""
    /\ error = ""
    /\ rss = FALSE
    /\ NewPoller


\* ------------------------------------------------------------ helpers

\* RemoteCommand.didFail() of the command that completed last.
didFail == Last.res = FAILURE

\* RemoteCommand.results() of the command that completed last.
results == Last.res

\* cmd.stdout of the command that completed last.
stdout == Last.stdout

\* The result the step ends with when an exception leaves run_vc.
ExceptionResult(exc) ==
    CASE exc = "BuildStepCancelled" -> CANCELLED
      [] exc = "BuildStepFailed" -> FAILURE
      [] OTHER -> EXCEPTION

\* self.msg(fmt, *args): the header line, kept as the format and its arguments.
msg(fmt, args) == <<fmt>> \o args

\* The RemoteShellCommand that self.fossil(*args, workdir=dir) builds, with
\* the step's env, logEnviron and timeout.  It is built after logEnviron' is
\* known.
FossilCmd(argv, dir) ==
    [kind |-> "fossil", cmd |-> argv[1], argv |-> argv, dir |-> dir,
     env |-> env, logEnviron |-> logEnviron', timeout |-> timeout,
     res |-> "pending", stdout |-> NoOutput]

\* The RemoteCommand of runRmdir, runMkdir, runRmFile and pathExists.
HelperCmd(name, path) ==
    [kind |-> "helper", cmd |-> name, argv |-> <<name, path>>, dir |-> <<>>,
     logEnviron |-> logEnviron', res |-> "pending", stdout |-> NoOutput]

\* yield self.runCommand(cmd): the command is sent and the coroutine suspends
\* at `label`, having written the headers h.
Issue(label, c, h, m, rs) ==
    /\ pc' = label
    /\ cmds' = Append(cmds, c)
    /\ inflight' = inflight + 1
    /\ headers' = headers \o h
    /\ fc_method' = m
    /\ repo_status' = rs
    /\ UNCHANGED <<outcome, error>>

\* run_vc ends: with a returned result, or with an exception.
Stop(res, err, h) ==
    /\ pc' = "done"
    /\ outcome' = res
    /\ error' = err
    /\ headers' = headers \o h
    /\ UNCHANGED <<cmds, inflight, fc_method, repo_status>>

Return(res, h) == Stop(res, "", h)

Raise(exc, text, h) == Stop(ExceptionResult(exc), text, h)

\* The version encoding of check_fossil_version: the first three dotted
\* numbers weighted 10000, 100 and 1.
\* Faulty variant of Scale: decimal weights.
Scale_decimal == <<100, 10, 1>>

Scale == <<10000, 100, 1>>

RECURSIVE SumTo(_, _)
SumTo(ver, n) ==
    IF n = 0 THEN 0 ELSE ver[n] * Scale[n] + SumTo(ver, n - 1)

\* Faulty variant of EncodeVersion: a fourth number is counted too.
EncodeVersion_with_fourth(ver) ==
    SumTo(ver, IF Len(ver) < Len(Scale) THEN Len(ver) ELSE Len(Scale))
        + (IF Len(ver) > Len(Scale) THEN ver[Len(Scale) + 1] ELSE 0)

EncodeVersion(ver) ==
    SumTo(ver, IF Len(ver) < Len(Scale) THEN Len(ver) ELSE Len(Scale))

\* Faulty variant of VersionMatches: the pattern (\d+(\.\d+)*) also accepts a
\* single number.
VersionMatches_single_number(out) == out.banner /\ Len(out.ver) >= 1

\* re.match(r"This is fossil version (\d+(\.\d+)+)", out): a banner followed
\* by at least two dotted numbers.
VersionMatches(out) == out.banner /\ Len(out.ver) >= 2

\* int(match[1]) of the "JSON (API n)" line, or 0 without one.
JsonLevel(out) == IF out.json = None THEN 0 ELSE out.json[1]

\* "tag:" + branch
TagOf(b) == <<"tag:", b>>

\* Faulty variant of CheckoutVersion: the branch is looked at first.
CheckoutVersion_branch_first(b, r) ==
    IF b # "" THEN TagOf(b)
    ELSE IF r # "" THEN <<r>>
    ELSE <<"tip">>

\* The label fossil_checkout passes to `fossil checkout`.
CheckoutVersion(b, r) ==
    IF r # "" THEN <<r>>
    ELSE IF b # "" THEN TagOf(b)
    ELSE <<"tip">>

\* s.rstrip("\/"): the text without its trailing slashes and backslashes.
RECURSIVE rstrip(_)
rstrip(w) ==
    IF w # <<>> /\ w[Len(w)] \in {"/", "\\"}
    THEN rstrip(SubSeq(w, 1, Len(w) - 1))
    ELSE w

\* self.workdir.rstrip("\/") + ".fossil"
RepoPath(w) == rstrip(w) \o <<".fossil">>

\* The separators pathm.split knows, and the one pathm.join writes.
seps(pathm) == IF pathm = "ntpath" THEN {"/", "\\"} ELSE {"/"}

\* Faulty variant of sep: the separator of the master's platform.
sep_of_master(pathm) == "/"

sep(pathm) == IF pathm = "ntpath" THEN "\\" ELSE "/"

\* pathm.split(p)[1]: what follows the last separator of p.
RECURSIVE split_tail(_, _)
split_tail(pathm, p) ==
    IF p = <<>> \/ p[Len(p)] \in seps(pathm)
    THEN <<>>
    ELSE split_tail(pathm, SubSeq(p, 1, Len(p) - 1)) \o <<p[Len(p)]>>

\* pathm.join(a, b) for a relative a without a trailing separator: b alone
\* when b starts at the root, a and b with the separator between otherwise.
join(pathm, a, b) ==
    IF b # <<>> /\ b[1] \in seps(pathm)
    THEN b
    ELSE a \o <<sep(pathm)>> \o b

\* ------------------------------------------------------------ control flow

\* Faulty variant of fossil_status_start: any advertised JSON API, level 0
\* included, selects the JSON form.
fossil_status_start_at_level_0(h) ==
    IF fossil_json' >= 0
    THEN Issue("fossil_status", FossilCmd(<<"json", "status">>, workdir),
               h, fc_method, repo_status)
    ELSE Issue("fossil_status", FossilCmd(<<"status", "--differ">>, workdir),
               h, fc_method, repo_status)

\* fossil_status up to its command.
fossil_status_start(h) ==
    IF fossil_json' > 0
    THEN Issue("fossil_status", FossilCmd(<<"json", "status">>, workdir),
               h, fc_method, repo_status)
    ELSE Issue("fossil_status", FossilCmd(<<"status", "--differ">>, workdir),
               h, fc_method, repo_status)

\* Faulty variant of run_vc_checkout: the result of the clean phase is not
\* looked at.
run_vc_checkout_unchecked(res, h) ==
    Issue("fossil_checkout",
          FossilCmd(<<"checkout", CheckoutVersion(branch, revision)>>, workdir),
          h, fc_method, repo_status)

\* run_vc from the result of the clean phase up to the checkout command.
run_vc_checkout(res, h) ==
    IF res # SUCCESS
    THEN Return(res, h)
    ELSE Issue("fossil_checkout",
               FossilCmd(<<"checkout", CheckoutVersion(branch, revision)>>, workdir),
               h, fc_method, repo_status)

\* fossil_open up to its first command.
fossil_open_start(h) ==
    IF fossil_version' >= HAS_OPEN_WORKDIR
    THEN Issue("fossil_open",
               FossilCmd(<<"open", repopath', "--workdir", workdir, "--empty">>, BASEDIR),
               h, fc_method, repo_status)
    ELSE Issue("fossil_open_mkdir", HelperCmd("mkdir", workdir),
               h, fc_method, repo_status)

\* full_clean from "We now have a good repo" on, with local method m.
full_clean_good_repo(m, rs, h) ==
    IF m = "fresh"
    THEN Issue("full_clean_fresh", FossilCmd(<<"clean", "--verily">>, workdir), h, m, rs)
    ELSE IF m = "copy"
    THEN Issue("full_clean_rmdir", HelperCmd("rmdir", workdir), h, m, rs)
    ELSE run_vc_checkout(SUCCESS, h)

\* Faulty variant of full_clean_clone: the clone is made whatever the state
\* of the repo.
full_clean_clone_always(m, rs, h) ==
    Issue("full_clean_clone",
          FossilCmd(<<"clone", REPOURL, repopath'>>, BASEDIR), h, "clobber", rs)

\* Faulty variant of full_clean_clone: a repo that is not good does not
\* demote the method to clobber.
full_clean_clone_without_demotion(m, rs, h) ==
    IF m = "clobber"
    THEN Issue("full_clean_clone",
               FossilCmd(<<"clone", REPOURL, repopath'>>, BASEDIR), h, m, rs)
    ELSE full_clean_good_repo(m, rs, h)

\* full_clean once repo_status is known (or the method is clobber): the
\* demotion to clobber and the clone.
full_clean_clone(m, rs, h) ==
    LET m2 == IF m # "clobber" /\ rs # SUCCESS THEN "clobber" ELSE m
    IN  IF m2 = "clobber"
        THEN Issue("full_clean_clone",
                   FossilCmd(<<"clone", REPOURL, repopath'>>, BASEDIR), h, m2, rs)
        ELSE full_clean_good_repo(m2, rs, h)

\* Faulty variant of update_repo_start: the pull names no URL, so it goes to
\* the remote the clone records.
update_repo_start_default_remote(h, m, rs) ==
    Issue("update_repo",
          FossilCmd(<<"pull", "-R", repopath'>>, BASEDIR), h, m, rs)

\* update_repo up to its pull command.
update_repo_start(h, m, rs) ==
    Issue("update_repo",
          FossilCmd(<<"pull", REPOURL, "-R", repopath'>>, BASEDIR), h, m, rs)

\* Faulty variant of full_clean: the repo_status passed by the caller is
\* ignored and the repo is validated again.
full_clean_validating_again(m, rs, h) ==
    IF m = "clobber"
    THEN Issue("full_clean_rmfile", HelperCmd("rmfile", repopath'), h, m, rs)
    ELSE update_repo_start(h, m, rs)

\* full_clean(method, repo_status) up to its first command.
full_clean(m, rs, h) ==
    IF m = "clobber"
    THEN Issue("full_clean_rmfile", HelperCmd("rmfile", repopath'), h, m, rs)
    ELSE IF rs = ""
    THEN update_repo_start(h, m, rs)
    ELSE full_clean_clone(m, rs, h)

\* Faulty variant of update_repo_return: incremental mode falls back to the
\* clobber method, which removes the clone file.
update_repo_return_clobbering(rs, h) ==
    IF mode = "incremental"
    THEN IF rs # SUCCESS
         THEN full_clean("clobber", rs, h \o <<msg("no repo found, cloning", <<>>)>>)
         ELSE Issue("incremental_clean", FossilCmd(<<"revert">>, workdir),
                    h, fc_method, rs)
    ELSE full_clean_clone(fc_method, rs, h)

\* The caller of update_repo resumes with its result rs: incremental_clean in
\* incremental mode, full_clean otherwise.
update_repo_return(rs, h) ==
    IF mode = "incremental"
    THEN IF rs # SUCCESS
         THEN full_clean("copy", rs, h \o <<msg("no repo found, cloning", <<>>)>>)
         ELSE Issue("incremental_clean", FossilCmd(<<"revert">>, workdir),
                    h, fc_method, rs)
    ELSE full_clean_clone(fc_method, rs, h)

\* Faulty variant of fossil: logEnviron is left as it was configured.
fossil_keeping_logEnviron(cont) ==
    IF results = CANCELLED
    THEN /\ UNCHANGED <<logEnviron, probe, props, patched>>
         /\ Raise("BuildStepCancelled", "", <<>>)
    ELSE /\ UNCHANGED logEnviron
         /\ cont

\* Faulty variant of fossil: the CANCELLED check is missing.
fossil_without_cancel_check(cont) ==
    /\ logEnviron' = FALSE
    /\ cont

\* self.fossil(...) resumes when its command has completed: a cancelled
\* command raises BuildStepCancelled, any other turns environment logging off
\* and hands the command to the caller, whose continuation is `cont`.
fossil(cont) ==
    IF results = CANCELLED
    THEN /\ UNCHANGED <<logEnviron, probe, props, patched>>
         /\ Raise("BuildStepCancelled", "", <<>>)
    ELSE /\ logEnviron' = FALSE
         /\ cont

\* ------------------------------------------------------------ actions

\* Fossil.__init__: the configuration is checked; config.error rejects it.
Construct ==
    /\ pc = "init"
    /\ IF mode = "incremental"
       THEN IF method # "none"
            THEN pc' = "rejected" /\ error' = "method has no effect in incremental mode"
            ELSE pc' = "ready" /\ UNCHANGED error
       ELSE IF mode = "full"
       THEN IF method \notin possible_methods
            THEN pc' = "rejected" /\ error' = "method must be one of possible_methods"
            ELSE pc' = "ready" /\ UNCHANGED error
       ELSE pc' = "rejected" /\ error' = "mode must be 'full' or 'incremental'"
    /\ UNCHANGED <<poller, config, cmds, inflight, probe, logEnviron, fc_method,
                   repo_status, headers, props, patched, outcome>>

\* run_vc starts: check_fossil_version sends `fossil version -verbose`.
run_vc ==
    /\ pc = "ready"
    /\ UNCHANGED <<poller, config, probe, logEnviron, props, patched>>
    /\ Issue("check_fossil_version", FossilCmd(<<"version", "-verbose">>, BASEDIR),
             <<msg("checking fossil version", <<>>)>>, fc_method, repo_status)

\* The results a command may complete with.  A filesystem helper succeeds or
\* fails; a fossil command may also be interrupted.  `pull -R repopath` and
\* the stat of repopath look at the clone file the run found: with no file the
\* pull cannot succeed and the stat fails, with a file the stat succeeds.
ResultsOf(c) ==
    IF c.cmd = "pull" /\ clone_remote = None THEN {FAILURE, CANCELLED}
    ELSE IF c.cmd = "stat" THEN (IF clone_remote = None THEN {FAILURE} ELSE {SUCCESS})
    ELSE IF c.kind = "fossil" THEN {SUCCESS, FAILURE, CANCELLED}
    ELSE {SUCCESS, FAILURE}

\* The output a completed command may have collected.
OutputsOf(c, r) ==
    IF r # SUCCESS THEN {NoOutput}
    ELSE IF c.cmd = "version" THEN ProbeOutputs
    ELSE IF c.cmd = "json" THEN JsonOutputs
    ELSE IF c.cmd = "status" THEN TextOutputs
    ELSE {NoOutput}

\* The worker completes the command in flight.
runCommand ==
    /\ inflight > 0
    /\ Last.res = "pending"
    /\ \E r \in ResultsOf(Last) : \E out \in OutputsOf(Last, r) :
         cmds' = [cmds EXCEPT ![Len(cmds)].res = r, ![Len(cmds)].stdout = out]
    /\ inflight' = inflight - 1
    /\ UNCHANGED <<poller, config, pc, probe, logEnviron, fc_method, repo_status, headers,
                   props, patched, outcome, error>>

\* check_fossil_version resumes with the version command; on success run_vc
\* goes on into incremental_clean or full_clean, up to their first command.
check_fossil_version ==
    /\ pc = "check_fossil_version" /\ inflight = 0
    /\ UNCHANGED <<poller, config, props, patched>>
    /\ fossil(
         IF didFail
         THEN /\ UNCHANGED probe
              /\ Raise("WorkerSetupError", "fossil is not installed on worker", <<>>)
         ELSE IF results # SUCCESS
         THEN /\ UNCHANGED probe
              /\ Return(results, <<>>)
         ELSE IF ~VersionMatches(stdout)
         THEN /\ UNCHANGED probe
              /\ Raise("WorkerSetupError", "unrecognized fossil version", <<>>)
         ELSE /\ fossil_version' = EncodeVersion(stdout.ver)
              /\ fossil_json' = JsonLevel(stdout)
              /\ repopath' = RepoPath(workdir)
              /\ IF mode = "incremental"
                 THEN update_repo_start(<<msg("incremental update", <<>>)>>,
                                        fc_method, repo_status)
                 ELSE full_clean(method, "",
                                 <<msg("full/{} checkout", <<method>>)>>))

\* update_repo resumes with the pull command.
update_repo ==
    /\ pc = "update_repo" /\ inflight = 0
    /\ UNCHANGED <<poller, config, probe, props, patched>>
    /\ fossil(
         IF results # FAILURE
         THEN update_repo_return(results, <<>>)
         ELSE Issue("update_repo_exists", HelperCmd("stat", repopath'),
                    <<>>, fc_method, repo_status))

\* Faulty variant of update_repo_exists: an existing repo whose pull failed is
\* reported as missing instead of failing the step.
update_repo_exists_lenient ==
    /\ pc = "update_repo_exists" /\ inflight = 0
    /\ UNCHANGED <<poller, config, probe, logEnviron, props, patched>>
    /\ update_repo_return(FAILURE, <<>>)

\* update_repo resumes with the answer of pathExists(repopath).
update_repo_exists ==
    /\ pc = "update_repo_exists" /\ inflight = 0
    /\ UNCHANGED <<poller, config, probe, logEnviron, props, patched>>
    /\ LET repo_exists == ~didFail
       IN  IF repo_exists
           THEN Raise("BuildStepFailed", "Problem with existing Fossil repo", <<>>)
           ELSE update_repo_return(FAILURE, <<>>)

\* Faulty variant of incremental_clean: the test of the revert is inverted.
incremental_clean_inverted ==
    /\ pc = "incremental_clean" /\ inflight = 0
    /\ UNCHANGED <<poller, config, probe, props, patched>>
    /\ fossil(
         IF didFail
         THEN run_vc_checkout(results, <<>>)
         ELSE full_clean("copy", repo_status,
                         <<msg("failed to revert, using full/copy checkout", <<>>)>>))

\* incremental_clean resumes with the revert command.
incremental_clean ==
    /\ pc = "incremental_clean" /\ inflight = 0
    /\ UNCHANGED <<poller, config, probe, props, patched>>
    /\ fossil(
         IF ~didFail
         THEN run_vc_checkout(results, <<>>)
         ELSE full_clean("copy", repo_status,
                         <<msg("failed to revert, using full/copy checkout", <<>>)>>))

\* Faulty variant of full_clean_rmfile: runRmFile is called without yield, so
\* full_clean goes on while the removal is in flight.
full_clean_rmfile_not_awaited ==
    /\ pc = "full_clean_rmfile"
    /\ UNCHANGED <<poller, config, probe, logEnviron, props, patched>>
    /\ full_clean_clone(fc_method, repo_status, <<>>)

\* Faulty variant of full_clean_rmfile: abandonOnFailure is left at its
\* default, so a failed removal fails the step.
full_clean_rmfile_abandoning ==
    /\ pc = "full_clean_rmfile" /\ inflight = 0
    /\ UNCHANGED <<poller, config, probe, logEnviron, props, patched>>
    /\ IF didFail
       THEN Raise("BuildStepFailed", "", <<>>)
       ELSE full_clean_clone(fc_method, repo_status, <<>>)

\* full_clean resumes after runRmFile(repopath, abandonOnFailure=False).
full_clean_rmfile ==
    /\ pc = "full_clean_rmfile" /\ inflight = 0
    /\ UNCHANGED <<poller, config, probe, logEnviron, props, patched>>
    /\ full_clean_clone(fc_method, repo_status, <<>>)

\* Faulty variant of full_clean_clone_done: the fresh clone is cleaned before
\* it is opened.
full_clean_clone_done_cleaning ==
    /\ pc = "full_clean_clone" /\ inflight = 0
    /\ UNCHANGED <<poller, config, probe, props, patched>>
    /\ fossil(
         IF results # SUCCESS
         THEN Return(results, <<>>)
         ELSE full_clean_good_repo("fresh", repo_status, <<>>))

\* full_clean resumes with the clone command.
\* Faulty variant of full_clean_clone_done: a clone that failed is followed
\* by another version probe.
full_clean_clone_done_diagnosing ==
    /\ pc = "full_clean_clone" /\ inflight = 0
    /\ UNCHANGED <<poller, config, probe, props, patched>>
    /\ fossil(
         IF didFail
         THEN Issue("check_fossil_version",
                    FossilCmd(<<"version", "-verbose">>, BASEDIR),
                    <<>>, fc_method, repo_status)
         ELSE IF results # SUCCESS
         THEN Return(results, <<>>)
         ELSE full_clean_good_repo("copy", repo_status, <<>>))

\* Faulty variant of full_clean_clone_done: the configured method is kept
\* after the clone.
full_clean_clone_done_keeping_method ==
    /\ pc = "full_clean_clone" /\ inflight = 0
    /\ UNCHANGED <<poller, config, probe, props, patched>>
    /\ fossil(
         IF results # SUCCESS
         THEN Return(results, <<>>)
         ELSE full_clean_good_repo(IF method \in {"fresh", "copy"} THEN method ELSE "copy",
                                   repo_status, <<>>))

full_clean_clone_done ==
    /\ pc = "full_clean_clone" /\ inflight = 0
    /\ UNCHANGED <<poller, config, probe, props, patched>>
    /\ fossil(
         IF results # SUCCESS
         THEN Return(results, <<>>)
         ELSE full_clean_good_repo("copy", repo_status, <<>>))

\* full_clean resumes with the clean command of the fresh method.
full_clean_fresh ==
    /\ pc = "full_clean_fresh" /\ inflight = 0
    /\ UNCHANGED <<poller, config, probe, props, patched>>
    /\ fossil(
         IF results = SUCCESS
         THEN Issue("full_clean_revert", FossilCmd(<<"revert">>, workdir),
                    <<>>, fc_method, repo_status)
         ELSE IF didFail
         THEN full_clean_good_repo("copy", repo_status,
                <<msg("problem cleaning, falling back to full/copy", <<>>)>>)
         ELSE run_vc_checkout(results, <<>>))

\* Faulty variant of full_clean_revert: a failed revert is returned instead of
\* falling back to copy.
full_clean_revert_without_fallback ==
    /\ pc = "full_clean_revert" /\ inflight = 0
    /\ UNCHANGED <<poller, config, probe, props, patched>>
    /\ fossil(run_vc_checkout(results, <<>>))

\* full_clean resumes with the revert command of the fresh method.
full_clean_revert ==
    /\ pc = "full_clean_revert" /\ inflight = 0
    /\ UNCHANGED <<poller, config, probe, props, patched>>
    /\ fossil(
         IF didFail
         THEN full_clean_good_repo("copy", repo_status,
                <<msg("problem cleaning, falling back to full/copy", <<>>)>>)
         ELSE run_vc_checkout(results, <<>>))

\* Faulty variant of full_clean_rmdir: a failed removal of workdir is not
\* looked at.
full_clean_rmdir_unchecked ==
    /\ pc = "full_clean_rmdir" /\ inflight = 0
    /\ UNCHANGED <<poller, config, probe, logEnviron, props, patched>>
    /\ fossil_open_start(<<>>)

\* full_clean resumes after runRmdir(workdir); fossil_open starts.
full_clean_rmdir ==
    /\ pc = "full_clean_rmdir" /\ inflight = 0
    /\ UNCHANGED <<poller, config, probe, logEnviron, props, patched>>
    /\ IF didFail
       THEN Raise("BuildStepFailed", "", <<>>)
       ELSE fossil_open_start(<<>>)

\* Faulty variant of fossil_open_mkdir: a failed mkdir is not looked at.
fossil_open_mkdir_unchecked ==
    /\ pc = "fossil_open_mkdir" /\ inflight = 0
    /\ UNCHANGED <<poller, config, probe, logEnviron, props, patched>>
    /\ Issue("fossil_open",
             FossilCmd(<<"open", join(path_module, <<"..">>,
                                      split_tail(path_module, repopath')),
                         "--empty">>, workdir),
             <<>>, fc_method, repo_status)

\* fossil_open resumes after runMkdir(workdir), with an older fossil.
fossil_open_mkdir ==
    /\ pc = "fossil_open_mkdir" /\ inflight = 0
    /\ UNCHANGED <<poller, config, probe, logEnviron, props, patched>>
    /\ IF didFail
       THEN Raise("BuildStepFailed", "", <<>>)
       ELSE Issue("fossil_open",
                  FossilCmd(<<"open", join(path_module, <<"..">>,
                                           split_tail(path_module, repopath')),
                              "--empty">>, workdir),
                  <<>>, fc_method, repo_status)

\* fossil_open resumes with the open command; run_vc goes on to the checkout.
\* Faulty variant of fossil_open: a failed open starts the clobber tier.
fossil_open_retrying ==
    /\ pc = "fossil_open" /\ inflight = 0
    /\ UNCHANGED <<poller, config, probe, props, patched>>
    /\ fossil(
         IF didFail
         THEN full_clean("clobber", repo_status, <<>>)
         ELSE run_vc_checkout(results, <<>>))

fossil_open ==
    /\ pc = "fossil_open" /\ inflight = 0
    /\ UNCHANGED <<poller, config, probe, props, patched>>
    /\ fossil(run_vc_checkout(results, <<>>))

\* Faulty variant of fossil_checkout: the result of the checkout is not
\* looked at.
fossil_checkout_unchecked ==
    /\ pc = "fossil_checkout" /\ inflight = 0
    /\ UNCHANGED <<poller, config, probe, props, patched>>
    /\ fossil(
         IF patch
         THEN /\ pc' = "patch"
              /\ UNCHANGED <<cmds, inflight, headers, fc_method, repo_status,
                             outcome, error>>
         ELSE fossil_status_start(<<>>))

\* fossil_checkout resumes with the checkout command; run_vc goes on to the
\* patch, when there is one, or to fossil_status.
fossil_checkout ==
    /\ pc = "fossil_checkout" /\ inflight = 0
    /\ UNCHANGED <<poller, config, probe, props, patched>>
    /\ fossil(
         IF results # SUCCESS
         THEN Return(results, <<>>)
         ELSE IF patch
         THEN /\ pc' = "patch"
              /\ UNCHANGED <<cmds, inflight, headers, fc_method, repo_status,
                             outcome, error>>
         ELSE fossil_status_start(<<>>))

\* Faulty variant of apply_patch: run_vc returns once the patch is applied.
apply_patch_returning ==
    /\ pc = "patch" /\ inflight = 0
    /\ patched' = TRUE
    /\ UNCHANGED <<poller, config, probe, logEnviron, props>>
    /\ \E ok \in BOOLEAN :
         IF ok
         THEN Return(SUCCESS, <<>>)
         ELSE Raise("BuildStepFailed", "", <<>>)

\* yield self.patch(patch): the base class applies the patch, which may fail.
apply_patch ==
    /\ pc = "patch" /\ inflight = 0
    /\ patched' = TRUE
    /\ UNCHANGED <<poller, config, probe, logEnviron, props>>
    /\ \E ok \in BOOLEAN :
         IF ok
         THEN fossil_status_start(<<>>)
         ELSE Raise("BuildStepFailed", "", <<>>)

\* Faulty variant of fossil_status: the JSON path publishes the revision only.
fossil_status_json_without_tags ==
    /\ pc = "fossil_status" /\ inflight = 0
    /\ UNCHANGED <<poller, config, probe, patched>>
    /\ fossil(
         IF results # SUCCESS
         THEN /\ UNCHANGED props
              /\ Return(results, <<>>)
         ELSE IF fossil_json > 0
         THEN IF ~stdout.envelope \/ stdout.uuid = None
              THEN /\ UNCHANGED props
                   /\ Raise("KeyError", "malformed json status", <<>>)
              ELSE /\ props' = [props EXCEPT !.got_revision = stdout.uuid]
                   /\ Return(SUCCESS, <<>>)
         ELSE /\ props' = [got_revision |-> IF stdout.checkout # None
                                            THEN stdout.checkout ELSE props.got_revision,
                           got_tags |-> IF stdout.tags # None
                                        THEN stdout.tags ELSE props.got_tags]
              /\ Return(SUCCESS, <<>>))

\* Faulty variant of fossil_status: the text path looks for the tags line
\* only when it found the checkout line.
fossil_status_tags_under_checkout ==
    /\ pc = "fossil_status" /\ inflight = 0
    /\ UNCHANGED <<poller, config, probe, patched>>
    /\ fossil(
         IF results # SUCCESS
         THEN /\ UNCHANGED props
              /\ Return(results, <<>>)
         ELSE IF fossil_json > 0
         THEN IF ~stdout.envelope \/ stdout.uuid = None
              THEN /\ UNCHANGED props
                   /\ Raise("KeyError", "malformed json status", <<>>)
              ELSE IF stdout.tags = None
              THEN /\ props' = [props EXCEPT !.got_revision = stdout.uuid]
                   /\ Raise("KeyError", "malformed json status", <<>>)
              ELSE /\ props' = [got_revision |-> stdout.uuid, got_tags |-> stdout.tags]
                   /\ Return(SUCCESS, <<>>)
         ELSE /\ props' = [got_revision |-> IF stdout.checkout # None
                                            THEN stdout.checkout ELSE props.got_revision,
                           got_tags |-> IF stdout.checkout # None /\ stdout.tags # None
                                        THEN stdout.tags ELSE props.got_tags]
              /\ Return(SUCCESS, <<>>))

\* fossil_status resumes with the status command and sets the properties.
fossil_status ==
    /\ pc = "fossil_status" /\ inflight = 0
    /\ UNCHANGED <<poller, config, probe, patched>>
    /\ fossil(
         IF results # SUCCESS
         THEN /\ UNCHANGED props
              /\ Return(results, <<>>)
         ELSE IF fossil_json > 0
         THEN IF ~stdout.envelope \/ stdout.uuid = None
              THEN /\ UNCHANGED props
                   /\ Raise("KeyError", "malformed json status", <<>>)
              ELSE IF stdout.tags = None
              THEN /\ props' = [props EXCEPT !.got_revision = stdout.uuid]
                   /\ Raise("KeyError", "malformed json status", <<>>)
              ELSE /\ props' = [got_revision |-> stdout.uuid, got_tags |-> stdout.tags]
                   /\ Return(SUCCESS, <<>>)
         ELSE /\ props' = [got_revision |-> IF stdout.checkout # None
                                            THEN stdout.checkout ELSE props.got_revision,
                           got_tags |-> IF stdout.tags # None
                                        THEN stdout.tags ELSE props.got_tags]
              /\ Return(SUCCESS, <<>>))

Next ==
    \/ Construct
    \/ run_vc
    \/ runCommand
    \/ check_fossil_version
    \/ update_repo
    \/ update_repo_exists
    \/ incremental_clean
    \/ full_clean_rmfile
    \/ full_clean_clone_done
    \/ full_clean_fresh
    \/ full_clean_revert
    \/ full_clean_rmdir
    \/ fossil_open_mkdir
    \/ fossil_open
    \/ fossil_checkout
    \/ apply_patch
    \/ fossil_status

Spec == Init /\ [][Next]_vars

\* A run in which every remote command issued completes and the coroutine is
\* resumed whenever it can go on.
FairSpec == Spec /\ WF_vars(Next)

\* ------------------------------------- the options of the remote commands

\* A step given its env, timeout and logEnviron arguments, with no branch and
\* no revision, and with a patch.
OptionsInit ==
    /\ mode \in Modes
    /\ method \in Methods
    /\ branch = "" /\ revision = "" /\ patch = TRUE
    /\ workdir = WORKDIR /\ path_module = "posixpath"
    /\ clone_remote \in CloneRemotes
    /\ env \in Envs /\ timeout \in Timeouts
    /\ logEnviron \in BOOLEAN
    /\ pc = "init"
    /\ cmds = <<>>
    /\ inflight = 0
    /\ fossil_version = -1
    /\ fossil_json = -1
    /\ repopath = None
    /\ fc_method = ""
    /\ repo_status = ""
    /\ headers = <<>>
    /\ props = NoProps
    /\ patched = FALSE
    /\ outcome = ""
    /\ error = ""
    /\ rss = FALSE
    /\ NewPoller

OptionsSpec == OptionsInit /\ [][Next]_vars

\* ------------------------------------------------- the probe on its own

\* The longest dotted version the probe is given.
MaxVersionLen == 4

\* The numbers a dotted version is made of.
Components == {0, 1, 2, 8, 12, 15, 99}

ProbeVersions == UNION {[1..n -> Components] : n \in 1..MaxVersionLen}

\* Outputs of `fossil version -verbose`: any dotted version after the banner,
\* with no JSON line, with "JSON (API 0)" or with "JSON (API 20120713)".
ProbeInputs ==
    {[kind |-> "version", banner |-> FALSE, ver |-> <<>>, json |-> None]}
    \cup {[kind |-> "version", banner |-> TRUE, ver |-> v, json |-> j] :
             v \in ProbeVersions, j \in {None, Some(0), Some(20120713)}}

\* check_fossil_version is about to resume: `fossil version -verbose` has
\* completed with one of ProbeInputs.
ProbeInit ==
    /\ mode \in {"incremental", "full"}
    /\ method = (IF mode = "incremental" THEN "none" ELSE "copy")
    /\ branch = "" /\ revision = "" /\ patch = FALSE
    /\ workdir = WORKDIR /\ path_module = "posixpath"
    /\ clone_remote = Some(REPOURL)
    /\ env = DefaultEnv /\ timeout = DefaultTimeout
    /\ logEnviron = TRUE
    /\ pc = "check_fossil_version"
    /\ \E out \in ProbeInputs :
         cmds = <<[kind |-> "fossil", cmd |-> "version",
                   argv |-> <<"version", "-verbose">>, dir |-> BASEDIR,
                   env |-> env, logEnviron |-> TRUE, timeout |-> timeout,
                   res |-> SUCCESS, stdout |-> out]>>
    /\ inflight = 0
    /\ fossil_version = -1
    /\ fossil_json = -1
    /\ repopath = None
    /\ fc_method = ""
    /\ repo_status = ""
    /\ headers = <<msg("checking fossil version", <<>>)>>
    /\ props = NoProps
    /\ patched = FALSE
    /\ outcome = ""
    /\ error = ""
    /\ rss = FALSE
    /\ NewPoller

ProbeNext == check_fossil_version

ProbeSpec == ProbeInit /\ [][ProbeNext]_vars

\* ------------------------------------------------------------ the poller

\* The number of polls of a behaviour, and the longest feed a poll fetches.
MaxPolls == 3
MaxFeed == 2

PollRevs == {"c4da10", "eade2f", "fe7bf7"}

\* A feed lists check-ins newest first, each once.
Feeds ==
    {f \in UNION {[1..n -> PollRevs] : n \in 0..MaxFeed} :
        \A i, j \in 1..Len(f) : i # j => f[i] # f[j]}

Range(f) == {f[i] : i \in 1..Len(f)}

\* reversed(...) and list.reverse()
Reverse(f) == [i \in 1..Len(f) |-> f[Len(f) + 1 - i]]

\* What the server may answer to a JSON request whose payload, when all is
\* well, is one of `payloads`: an HTTP error, a body that is not a Fossil
\* envelope, an authentication error (resultCode FOSSIL-2002), another API
\* error (FOSSIL-3002), a payload that is not a dict, or a payload.
JsonResponses(payloads, blank) ==
    {[code |-> 404, fossil |-> FALSE, resultCode |-> 0, is_dict |-> TRUE, payload |-> blank],
     [code |-> 200, fossil |-> FALSE, resultCode |-> 0, is_dict |-> TRUE, payload |-> blank],
     [code |-> 200, fossil |-> TRUE, resultCode |-> 2002, is_dict |-> TRUE, payload |-> blank],
     [code |-> 200, fossil |-> TRUE, resultCode |-> 3002, is_dict |-> TRUE, payload |-> blank],
     [code |-> 200, fossil |-> TRUE, resultCode |-> 0, is_dict |-> FALSE, payload |-> blank]}
    \cup {[code |-> 200, fossil |-> TRUE, resultCode |-> 0, is_dict |-> TRUE, payload |-> pl] :
             pl \in payloads}

TimelineResponses ==
    JsonResponses({[timeline |-> f] : f \in Feeds}, [timeline |-> <<>>])

AnonymousPasswordResponses ==
    JsonResponses({[password |-> "8XXXX13b", seed |-> "1247781448"]},
                  [password |-> "", seed |-> ""])

LoginResponses ==
    JsonResponses({[loginCookieName |-> "fossil-42b934f2ab", authToken |-> t] :
                      t \in {"b7ef66", "0c1d2e"}},
                  [loginCookieName |-> "", authToken |-> ""])

\* What the server may answer to GET /timeline.rss: an HTTP error, or the
\* items of the channel.
RssResponses ==
    {[code |-> 404, items |-> <<>>]} \cup {[code |-> 200, items |-> f] : f \in Feeds}

\* json_payload(url, response): the exception it raises ("" when none) and
\* the payload it returns.
json_payload(response) ==
    [exc |-> IF response.code # 200 THEN "HTTPError"
             ELSE IF ~response.fossil THEN "RuntimeError"
             ELSE IF response.resultCode # 0
             THEN (IF response.resultCode \div 1000 = 2 THEN "JSONAuthError" ELSE "JSONError")
             ELSE IF ~response.is_dict THEN "RuntimeError"
             ELSE "",
     payload |-> response.payload]

\* An HTTP request of the poller, its response awaited.
Request(verb, path) == [verb |-> verb, path |-> path, resp |-> "pending"]

\* The requests of the poll once the one awaited is answered: with "ok", or
\* with the exception the answer raised.
Answer(exc) ==
    [requests EXCEPT ![Len(requests)].resp = IF exc = "" THEN "ok" ELSE exc]

\* The poll ends: having processed its changes, having logged the HTTPError
\* or JSONError that poll catches, or with an exception that leaves poll.
PollEnd(result) ==
    /\ ppc' = "idle"
    /\ poll_result' = result

\* Faulty variant of PollExcept: the poll goes on to _process_changes with
\* no change, as _fetch_rss does on an HTTP error.
PollExcept_processing_nothing(exc) ==
    /\ requests' = Answer(exc)
    /\ PollEnd(IF exc \in {"HTTPError", "JSONError", "JSONAuthError"}
               THEN "logged" ELSE "raised")
    /\ last_fetch' = {}
    /\ state' = [state EXCEPT !.last_fetch = Some(<<>>)]
    /\ UNCHANGED <<http_cookie, feed, emitted>>

\* An exception leaves _fetch_json: poll logs an HTTPError or a JSONError
\* (a JSONAuthError is one), anything else leaves poll.
PollExcept(exc) ==
    /\ requests' = Answer(exc)
    /\ PollEnd(IF exc \in {"HTTPError", "JSONError", "JSONAuthError"}
               THEN "logged" ELSE "raised")
    /\ UNCHANGED <<last_fetch, state, http_cookie, feed, emitted>>

\* The changes of a list whose revision last_fetch does not hold.
Fresh(changes) == SelectSeq(changes, LAMBDA rev : rev \notin last_fetch)

\* Faulty variant of process_changes: the revisions fetched are added to
\* those of the earlier polls.
process_changes_accumulating(changes) ==
    /\ emitted' = Fresh(changes)
    /\ last_fetch' = last_fetch \cup Range(changes)
    /\ state' = [state EXCEPT !.last_fetch = Some(changes)]
    /\ PollEnd("processed")

\* Faulty variant of process_changes: every change fetched is added.
process_changes_unfiltered(changes) ==
    /\ emitted' = changes
    /\ last_fetch' = Range(changes)
    /\ state' = [state EXCEPT !.last_fetch = Some(changes)]
    /\ PollEnd("processed")

\* _process_changes(changes): addChange for each change not in last_fetch,
\* then last_fetch and the stored state become the revisions fetched.  The
\* master's addChange and setState are taken to succeed.
process_changes(changes) ==
    /\ emitted' = Fresh(changes)
    /\ last_fetch' = Range(changes)
    /\ state' = [state EXCEPT !.last_fetch = Some(changes)]
    /\ PollEnd("processed")

\* Faulty variant of fetch_json_changes: the timeline is taken in the order
\* of the payload.
fetch_json_changes_unreversed(payload) ==
    /\ feed' = payload.timeline
    /\ requests' = Answer("")
    /\ UNCHANGED http_cookie
    /\ process_changes(payload.timeline)

\* _fetch_json once it has the timeline payload: the changes, oldest first,
\* go to _process_changes.
fetch_json_changes(payload) ==
    /\ feed' = payload.timeline
    /\ requests' = Answer("")
    /\ UNCHANGED http_cookie
    /\ process_changes(Reverse(payload.timeline))

\* A poller that is constructed, configured and activated, and polls.
PollerInit ==
    /\ mode = "incremental" /\ method = "none"
    /\ branch = "" /\ revision = "" /\ patch = FALSE
    /\ workdir = WORKDIR /\ path_module = "posixpath"
    /\ clone_remote = None
    /\ env = DefaultEnv /\ timeout = DefaultTimeout
    /\ logEnviron = FALSE
    /\ pc = "init"
    /\ cmds = <<>>
    /\ inflight = 0
    /\ fossil_version = -1
    /\ fossil_json = -1
    /\ repopath = None
    /\ fc_method = ""
    /\ repo_status = ""
    /\ headers = <<>>
    /\ props = NoProps
    /\ patched = FALSE
    /\ outcome = ""
    /\ error = ""
    /\ rss \in BOOLEAN
    /\ NewPoller

\* reconfigService: the stored login cookie, when there is one, becomes the
\* Cookie header of the HTTP client.
reconfigService ==
    /\ ppc = "new"
    /\ http_cookie' = state.login_cookie
    /\ ppc' = "configured"
    /\ UNCHANGED <<step, rss, last_fetch, state, requests, feed, prev_feed, before,
                   emitted, polls, since_activate, poll_result>>

\* Faulty variant of activate: the stored last_fetch is not loaded.
activate_without_state ==
    /\ ppc = "configured"
    /\ \E loaded \in BOOLEAN :
         IF loaded
         THEN /\ last_fetch' = {}
              /\ ppc' = "idle"
         ELSE /\ UNCHANGED last_fetch
              /\ ppc' = "inactive"
    /\ since_activate' = 0
    /\ UNCHANGED <<step, rss, state, http_cookie, requests, feed, prev_feed, before,
                   emitted, polls, poll_result>>

\* activate: last_fetch is loaded from the stored state and polling starts;
\* when getState raises, the failure is logged and the poller stays inactive.
activate ==
    /\ ppc = "configured"
    /\ \E loaded \in BOOLEAN :
         IF loaded
         THEN /\ last_fetch' = (IF state.last_fetch = None THEN {}
                                ELSE Range(state.last_fetch[1]))
              /\ ppc' = "idle"
         ELSE /\ UNCHANGED last_fetch
              /\ ppc' = "inactive"
    /\ since_activate' = 0
    /\ UNCHANGED <<step, rss, state, http_cookie, requests, feed, prev_feed, before,
                   emitted, polls, poll_result>>

\* The master restarts: the poller is stopped between two polls and a new
\* FossilPoller is constructed, the stored state being all that is kept.
restart ==
    /\ ppc \in {"idle", "inactive"}
    /\ polls < MaxPolls
    /\ ppc' = "new"
    /\ last_fetch' = {}
    /\ http_cookie' = None
    /\ UNCHANGED <<step, rss, state, requests, feed, prev_feed, before, emitted,
                   polls, since_activate, poll_result>>

\* poll starts: the timeline is requested.
poll ==
    /\ ppc = "idle"
    /\ polls < MaxPolls
    /\ polls' = polls + 1
    /\ since_activate' = since_activate + 1
    /\ prev_feed' = (IF poll_result = "processed" THEN feed ELSE prev_feed)
    /\ feed' = <<>>
    /\ emitted' = <<>>
    /\ before' = [last_fetch |-> last_fetch, state |-> state.last_fetch]
    /\ poll_result' = ""
    /\ IF rss
       THEN /\ requests' = <<Request("get", "/timeline.rss")>>
            /\ ppc' = "fetch_rss"
       ELSE /\ requests' = <<Request("get", "/json/timeline/checkin")>>
            /\ ppc' = "fetch_json"
    /\ UNCHANGED <<step, rss, last_fetch, state, http_cookie>>

\* _fetch_json resumes with the answer to the timeline request: an
\* authentication error starts _json_login.
fetch_json ==
    /\ ppc = "fetch_json"
    /\ \E response \in TimelineResponses :
         LET r == json_payload(response)
         IN  IF r.exc = "JSONAuthError"
             THEN /\ requests' = Append(Answer(r.exc),
                                        Request("get", "/json/anonymousPassword"))
                  /\ ppc' = "json_login"
                  /\ UNCHANGED <<last_fetch, state, http_cookie, feed, emitted,
                                 poll_result>>
             ELSE IF r.exc # ""
             THEN PollExcept(r.exc)
             ELSE fetch_json_changes(r.payload)
    /\ UNCHANGED <<step, rss, prev_feed, before, polls, since_activate>>

\* _json_login resumes with the anonymous password and posts the login.
json_login ==
    /\ ppc = "json_login"
    /\ \E response \in AnonymousPasswordResponses :
         LET r == json_payload(response)
         IN  IF r.exc # ""
             THEN PollExcept(r.exc)
             ELSE /\ requests' = Append(Answer(r.exc), Request("post", "/json/login"))
                  /\ ppc' = "json_login_post"
                  /\ UNCHANGED <<last_fetch, state, http_cookie, feed, emitted,
                                 poll_result>>
    /\ UNCHANGED <<step, rss, prev_feed, before, polls, since_activate>>

\* Faulty variant of json_login_post: the cookie is set on the HTTP client
\* and not stored.
json_login_post_without_setState ==
    /\ ppc = "json_login_post"
    /\ \E response \in LoginResponses :
         LET r == json_payload(response)
             cookie == <<r.payload.loginCookieName, "=", r.payload.authToken>>
         IN  IF r.exc # ""
             THEN PollExcept(r.exc)
             ELSE /\ http_cookie' = Some(cookie)
                  /\ UNCHANGED state
                  /\ requests' = Append(Answer(r.exc),
                                        Request("get", "/json/timeline/checkin"))
                  /\ ppc' = "fetch_json_retry"
                  /\ UNCHANGED <<last_fetch, feed, emitted, poll_result>>
    /\ UNCHANGED <<step, rss, prev_feed, before, polls, since_activate>>

\* _json_login resumes with the answer to the login: the cookie is set on
\* the HTTP client and stored, and _fetch_json requests the timeline again.
json_login_post ==
    /\ ppc = "json_login_post"
    /\ \E response \in LoginResponses :
         LET r == json_payload(response)
             cookie == <<r.payload.loginCookieName, "=", r.payload.authToken>>
         IN  IF r.exc # ""
             THEN PollExcept(r.exc)
             ELSE /\ http_cookie' = Some(cookie)
                  /\ state' = [state EXCEPT !.login_cookie = Some(cookie)]
                  /\ requests' = Append(Answer(r.exc),
                                        Request("get", "/json/timeline/checkin"))
                  /\ ppc' = "fetch_json_retry"
                  /\ UNCHANGED <<last_fetch, feed, emitted, poll_result>>
    /\ UNCHANGED <<step, rss, prev_feed, before, polls, since_activate>>

\* _fetch_json resumes with the answer to its second timeline request, which
\* is outside the try: any error leaves _fetch_json.
fetch_json_retry ==
    /\ ppc = "fetch_json_retry"
    /\ \E response \in TimelineResponses :
         LET r == json_payload(response)
         IN  IF r.exc # ""
             THEN PollExcept(r.exc)
             ELSE fetch_json_changes(r.payload)
    /\ UNCHANGED <<step, rss, prev_feed, before, polls, since_activate>>

\* _fetch_rss resumes with the answer to GET /timeline.rss: on an HTTP error
\* it logs and returns no change; the items are reversed otherwise.  poll
\* passes the list to _process_changes.
fetch_rss ==
    /\ ppc = "fetch_rss"
    /\ \E response \in RssResponses :
         IF response.code # 200
         THEN /\ requests' = Answer("HTTPError")
              /\ UNCHANGED feed
              /\ process_changes(<<>>)
         ELSE /\ requests' = Answer("")
              /\ feed' = response.items
              /\ process_changes(Reverse(response.items))
    /\ UNCHANGED <<step, rss, http_cookie, prev_feed, before, polls, since_activate>>

PollerNext ==
    \/ reconfigService
    \/ activate
    \/ restart
    \/ poll
    \/ fetch_json
    \/ json_login
    \/ json_login_post
    \/ fetch_json_retry
    \/ fetch_rss

PollerSpec == PollerInit /\ [][PollerNext]_vars

\* ------------------------------------------------------------ properties

\* The name a command goes by: both status forms are "status".
Kind(c) == IF c.cmd = "json" THEN "status" ELSE c.cmd

\* The names of the commands issued, in order.
Names == [i \in 1..Len(cmds) |-> Kind(cmds[i])]

IsPrefix(s, t) == Len(s) <= Len(t) /\ \A i \in 1..Len(s) : s[i] = t[i]

Issued(n) == \E i \in 1..Len(cmds) : Names[i] = n

Count(n) == Cardinality({i \in 1..Len(cmds) : Names[i] = n})

\* The result of the first command named n ("" when none was issued).
ResultOf(n) ==
    IF Issued(n)
    THEN cmds[CHOOSE i \in 1..Len(cmds) :
                Names[i] = n /\ \A j \in 1..(i - 1) : Names[j] # n].res
    ELSE ""

Done == pc = "done"

\* The properties a status output holds.
StatusProps(out) ==
    IF out.kind = "json"
    THEN [got_revision |-> out.uuid, got_tags |-> out.tags]
    ELSE [got_revision |-> out.checkout, got_tags |-> out.tags]

\* A status output the extraction reads without an error.
WellFormed(out) ==
    out.kind = "text" \/ (out.envelope /\ out.uuid # None /\ out.tags # None)

\* The run ended with a status command that succeeded and a readable output.
StatusRead ==
    /\ Done /\ cmds # <<>> /\ Kind(Last) = "status"
    /\ Last.res = SUCCESS /\ WellFormed(Last.stdout)

\* The copy method's commands: with `open --workdir`, and with an older fossil.
CopyNew == <<"rmdir", "open", "checkout", "status">>
CopyOld == <<"rmdir", "mkdir", "open", "checkout", "status">>

PrefixOfEither(pre) ==
    IsPrefix(Names, pre \o CopyNew) \/ IsPrefix(Names, pre \o CopyOld)

\* C1: a fossil command reported cancelled is the last command of the run:
\* nothing is issued after it (so no fallback strategy starts), and the run
\* ends cancelled (not failure, not exception).
C1_CancelledStopsRun ==
    \A i \in 1..Len(cmds) :
        (cmds[i].kind = "fossil" /\ cmds[i].res = CANCELLED) =>
            /\ i = Len(cmds)
            /\ inflight = 0
            /\ Done => (outcome = CANCELLED /\ error = "")
            /\ ~Done => outcome = ""

C1_Witness ==
    /\ Done /\ outcome = CANCELLED
    /\ Len(cmds) >= 4 /\ Last.cmd = "open" /\ Last.res = CANCELLED

\* C2: incremental mode, pull and revert succeeded: the commands are version,
\* pull, revert, checkout, status in that order and no other; all five are
\* issued once the checkout succeeded (unless the patch in between failed);
\* and a status that succeeds publishes what its output holds.
C2_IncrementalHappyPath ==
    (mode = "incremental" /\ ResultOf("pull") = SUCCESS /\ ResultOf("revert") = SUCCESS) =>
        /\ IsPrefix(Names, <<"version", "pull", "revert", "checkout", "status">>)
        /\ pc # "incremental_clean" => Issued("checkout")
        /\ (Done /\ ResultOf("checkout") = SUCCESS) =>
              \/ Len(cmds) = 5
              \/ patch /\ patched /\ outcome = FAILURE
        /\ StatusRead => (outcome = SUCCESS /\ props = StatusProps(Last.stdout))

C2_Witness ==
    /\ Done /\ mode = "incremental" /\ outcome = SUCCESS
    /\ Names = <<"version", "pull", "revert", "checkout", "status">>
    /\ \A i \in 1..Len(cmds) : cmds[i].res = SUCCESS
    /\ props.got_revision = Some("9be9ce")
    /\ props.got_tags = Some(<<"trunk", "release">>)

\* C3: the pull failed and the existence check found repopath: the run ends
\* with failure after version, pull, stat and nothing else.
C3_BadRepoStops ==
    (ResultOf("pull") = FAILURE /\ ResultOf("stat") = SUCCESS) =>
        /\ Names = <<"version", "pull", "stat">>
        /\ pc \in {"update_repo_exists", "done"}
        /\ Done => outcome = FAILURE
        /\ ~Done => outcome = ""

C3_Witness ==
    /\ Done /\ outcome = FAILURE /\ mode = "full" /\ method = "fresh"
    /\ Names = <<"version", "pull", "stat">>
    /\ ResultOf("pull") = FAILURE /\ ResultOf("stat") = SUCCESS

\* C4: incremental mode, the pull failed and repopath is absent: clone is
\* issued next, then the copy commands (rmdir, open), checkout and status, in
\* that order, with no revert, clean or second pull; a status that succeeds
\* ends the run in success with the properties of its output.
C4_IncrementalNoRepoClobbers ==
    (mode = "incremental" /\ ResultOf("pull") = FAILURE /\ ResultOf("stat") = FAILURE) =>
        /\ PrefixOfEither(<<"version", "pull", "stat", "clone">>)
        /\ pc # "update_repo_exists" => Issued("clone")
        /\ StatusRead => (outcome = SUCCESS /\ props = StatusProps(Last.stdout))

C4_Witness ==
    /\ Done /\ mode = "incremental" /\ outcome = SUCCESS
    /\ Names = <<"version", "pull", "stat", "clone", "rmdir", "open", "checkout", "status">>
    /\ ResultOf("pull") = FAILURE /\ ResultOf("stat") = FAILURE
    /\ props.got_revision # None /\ props.got_tags # None

\* C5: incremental mode, the pull succeeded and the revert failed: the workdir
\* is deleted and opened again from the existing clone, then checkout and
\* status follow; no second pull and no clone.
C5_RevertFailedCopies ==
    (mode = "incremental" /\ ResultOf("pull") = SUCCESS /\ ResultOf("revert") = FAILURE) =>
        /\ PrefixOfEither(<<"version", "pull", "revert">>)
        /\ pc # "incremental_clean" => Issued("rmdir")

C5_Witness ==
    /\ Done /\ mode = "incremental" /\ outcome = SUCCESS
    /\ Names = <<"version", "pull", "revert", "rmdir", "open", "checkout", "status">>
    /\ ResultOf("revert") = FAILURE

\* C6: full/fresh with a good repo: clean is issued once; revert only after a
\* clean that succeeded; the copy commands follow exactly when the clean
\* failed or the revert failed; with both succeeding checkout follows revert.
C6_FreshFallsBackToCopy ==
    (mode = "full" /\ method = "fresh" /\ ResultOf("pull") = SUCCESS) =>
        /\ \/ IsPrefix(Names, <<"version", "pull", "clean", "revert", "checkout", "status">>)
           \/ PrefixOfEither(<<"version", "pull", "clean">>)
           \/ PrefixOfEither(<<"version", "pull", "clean", "revert">>)
        /\ Issued("revert") => ResultOf("clean") = SUCCESS
        /\ Issued("rmdir") <=>
              /\ \/ ResultOf("clean") = FAILURE
                 \/ ResultOf("revert") = FAILURE
              /\ pc \notin {"full_clean_fresh", "full_clean_revert"}
        /\ (ResultOf("clean") = SUCCESS /\ ResultOf("revert") = SUCCESS
            /\ pc # "full_clean_revert") =>
              (Issued("checkout") /\ ~Issued("rmdir") /\ ~Issued("open"))

C6_Witness ==
    /\ Done /\ mode = "full" /\ method = "fresh"
    /\ Names = <<"version", "pull", "clean", "revert", "rmdir", "open", "checkout", "status">>
    /\ ResultOf("clean") = SUCCESS /\ ResultOf("revert") = FAILURE

\* A probe output without the leading version pattern.
Unrecognized(out) == ~out.banner \/ Len(out.ver) < 2

\* C7: the version probe failed, or printed no version: the run ends with
\* exception, with a message of its own for each case, and the probe is the
\* only command issued.
C7_ProbeFailureIsFatal ==
    /\ ResultOf("version") = FAILURE =>
          /\ Len(cmds) = 1
          /\ pc \in {"check_fossil_version", "done"}
          /\ Done => (outcome = EXCEPTION /\ error = "fossil is not installed on worker")
          /\ ~Done => outcome = ""
    /\ (ResultOf("version") = SUCCESS /\ Unrecognized(cmds[1].stdout)) =>
          /\ Len(cmds) = 1
          /\ pc \in {"check_fossil_version", "done"}
          /\ Done => (outcome = EXCEPTION /\ error = "unrecognized fossil version")
          /\ ~Done => outcome = ""

C7_Witness ==
    /\ Done /\ outcome = EXCEPTION /\ error = "unrecognized fossil version"
    /\ ResultOf("version") = SUCCESS /\ cmds[1].stdout.ver = <<2>>

ValidConfig ==
    \/ mode = "incremental" /\ method = "none"
    \/ mode = "full" /\ method \in {"fresh", "copy", "clobber"}

\* C8: construction accepts exactly incremental without a method and full
\* with fresh, copy or clobber; every other configuration is rejected with a
\* configuration error and never issues a command.
C8_ConstructionValidates ==
    /\ pc # "init" => (pc # "rejected" <=> ValidConfig)
    /\ ~ValidConfig => (cmds = <<>> /\ outcome = "")
    /\ pc = "rejected" => error # ""
    /\ (pc \notin {"init", "rejected"} /\ ~Done) => error = ""

C8_Witness ==
    /\ pc = "rejected" /\ mode = "incremental" /\ method = "fresh"
    /\ error = "method has no effect in incremental mode"

\* C9: a checkout that does not succeed is the last command: the run ends
\* with its result, no status is issued, nothing is published, and checkout
\* is not issued again.
C9_CheckoutFailureStops ==
    \A i \in 1..Len(cmds) :
        (Names[i] = "checkout" /\ cmds[i].res \in {FAILURE, CANCELLED}) =>
            /\ i = Len(cmds)
            /\ Count("checkout") = 1
            /\ ~Issued("status")
            /\ props = NoProps
            /\ pc \in {"fossil_checkout", "done"}
            /\ Done => outcome = cmds[i].res

C9_Witness ==
    /\ Done /\ outcome = FAILURE
    /\ Last.cmd = "checkout" /\ Last.res = FAILURE /\ props = NoProps

\* C10: a run that does not end in success has published neither property.
C10_PublishedOnlyOnSuccess ==
    (Done /\ outcome # SUCCESS) => props = NoProps

\* C11: one status command at most, and exactly one once the status step is
\* reached; it is `json status` when the probed JSON API level is above 0 and
\* `status --differ` otherwise.
C11_OneStatusByCapability ==
    /\ Count("status") <= 1
    /\ (pc = "fossil_status" \/ (Done /\ ResultOf("checkout") = SUCCESS /\ ~patched)) =>
          Count("status") = 1
    /\ \A i \in 1..Len(cmds) :
          Names[i] = "status" =>
              /\ cmds[i].dir = workdir
              /\ IF cmds[1].stdout.json # None /\ cmds[1].stdout.json[1] > 0
                 THEN cmds[i].argv = <<"json", "status">>
                 ELSE cmds[i].argv = <<"status", "--differ">>

C11_Witness ==
    /\ Done /\ outcome = SUCCESS
    /\ cmds[1].stdout.json = Some(0)
    /\ Last.argv = <<"status", "--differ">>

\* C12: full/clobber issues no pull and no stat: rmfile, then clone whatever
\* the removal's result, then the copy commands after a clone that succeeded
\* and never clean; a clone that failed ends the run with failure, the
\* workdir untouched.
C12_ClobberPath ==
    (mode = "full" /\ method = "clobber") =>
        /\ PrefixOfEither(<<"version", "rmfile", "clone">>)
        /\ (ResultOf("rmfile") \in {SUCCESS, FAILURE} /\ pc # "full_clean_rmfile") =>
              Issued("clone")
        /\ ResultOf("clone") = FAILURE =>
              /\ Len(cmds) = 3
              /\ pc \in {"full_clean_clone", "done"}
              /\ Done => outcome = FAILURE
        /\ (ResultOf("clone") = SUCCESS /\ pc # "full_clean_clone") =>
              (Names[4] = "rmdir" /\ cmds[4].argv = <<"rmdir", workdir>>)
        /\ \A i \in 1..Len(cmds) :
              /\ Names[i] = "rmfile" => cmds[i].argv = <<"rmfile", repopath>>
              /\ Names[i] = "clone" =>
                    cmds[i].argv = <<"clone", REPOURL, repopath>> /\ cmds[i].dir = BASEDIR

C12_Witness ==
    /\ Done /\ outcome = SUCCESS /\ mode = "full" /\ method = "clobber"
    /\ ResultOf("rmfile") = FAILURE
    /\ Names = <<"version", "rmfile", "clone", "rmdir", "open", "checkout", "status">>

\* The file name of p under the worker's path rules: what follows the last
\* separator the platform knows.
LastSepAt(p) ==
    LET known == IF path_module = "ntpath" THEN {"/", "\\"} ELSE {"/"}
        at == {k \in 1..Len(p) : p[k] \in known}
    IN  IF at = {} THEN 0 ELSE CHOOSE k \in at : \A j \in at : j <= k

FileNameOf(p) == SubSeq(p, LastSepAt(p) + 1, Len(p))

ParentRelative(p) ==
    <<"..", IF path_module = "ntpath" THEN "\\" ELSE "/">> \o FileNameOf(p)

\* C13: with a version of at least 21200 the open command is
\* `open <repopath> --workdir <workdir> --empty` from the base directory and
\* no mkdir is issued; with an older one a mkdir of workdir that succeeded
\* comes right before `open <rel> --empty` run inside workdir, <rel> being
\* ".." joined with the file name of repopath by the worker's path rules.
C13_OpenForm ==
    /\ Issued("mkdir") => fossil_version < 21200
    /\ \A i \in 1..Len(cmds) :
          Names[i] = "open" =>
              IF fossil_version >= 21200
              THEN /\ cmds[i].argv = <<"open", repopath, "--workdir", workdir, "--empty">>
                   /\ cmds[i].dir = <<".">>
                   /\ ~Issued("mkdir")
              ELSE /\ Names[i - 1] = "mkdir"
                   /\ cmds[i - 1].argv = <<"mkdir", workdir>>
                   /\ cmds[i - 1].res = SUCCESS
                   /\ cmds[i].argv = <<"open", ParentRelative(repopath), "--empty">>
                   /\ cmds[i].dir = workdir

C13_Witness ==
    /\ cmds # <<>> /\ Last.cmd = "open" /\ path_module = "ntpath"
    /\ workdir = <<"build", "/", "wkdir", "/">>
    /\ fossil_version = 20800
    /\ Last.argv = <<"open", <<"..", "\\", "wkdir", ".fossil">>, "--empty">>

\* C14: the checkout label is the revision when one is given, else
\* tag:<branch> when a branch is given, else tip; the command's result is
\* what run_vc goes by: it ends with a result that is not success and goes
\* on to the patch or the status otherwise.
C14_CheckoutLabel ==
    \A i \in 1..Len(cmds) :
        Names[i] = "checkout" =>
            /\ Len(cmds[i].argv) = 2 /\ cmds[i].argv[1] = "checkout"
            /\ cmds[i].dir = workdir
            /\ revision # "" => cmds[i].argv[2] = <<revision>>
            /\ (revision = "" /\ branch # "") => cmds[i].argv[2] = <<"tag:", branch>>
            /\ (revision = "" /\ branch = "") => cmds[i].argv[2] = <<"tip">>
            /\ (Done /\ cmds[i].res # SUCCESS) => outcome = cmds[i].res
            /\ (cmds[i].res = SUCCESS /\ pc # "fossil_checkout") =>
                  (pc = "patch" \/ patched \/ Issued("status"))

C14_Witness ==
    /\ Done /\ revision = "abc123" /\ branch = "trunk"
    /\ ResultOf("checkout") = SUCCESS
    /\ \E i \in 1..Len(cmds) : cmds[i].argv = <<"checkout", <<"abc123">>>>

\* C15: a probe output announcing a.b or a.b.c stores the version
\* a*10000 + b*100 + c, c being 0 when absent (2.15 is 21500, 2.12.1 is 21201,
\* 2.8 is 20800), and stores the advertised JSON API number, or 0 when no
\* JSON line is present.
C15_VersionEncoding ==
    LET out == cmds[1].stdout
        v == out.ver
        stored == pc # "check_fossil_version" /\ cmds[1].res = SUCCESS /\ out.banner
    IN  /\ (stored /\ Len(v) = 2) => fossil_version = v[1] * 10000 + v[2] * 100
        /\ (stored /\ Len(v) = 3) => fossil_version = v[1] * 10000 + v[2] * 100 + v[3]
        /\ (stored /\ v = <<2, 15>>) => fossil_version = 21500
        /\ (stored /\ v = <<2, 12, 1>>) => fossil_version = 21201
        /\ (stored /\ v = <<2, 8>>) => fossil_version = 20800
        /\ (stored /\ Len(v) \in {2, 3}) =>
              /\ out.json = <<>> => fossil_json = 0
              /\ out.json # <<>> => fossil_json = out.json[1]
              /\ error = ""

C15_Witness ==
    /\ pc # "check_fossil_version"
    /\ cmds[1].stdout.banner /\ cmds[1].stdout.ver = <<2, 12, 1>>
    /\ cmds[1].stdout.json = Some(20120713)
    /\ fossil_version = 21201 /\ fossil_json = 20120713

\* The patch was supplied and the base class failed to apply it.
PatchFailed ==
    /\ patch /\ patched /\ Done
    /\ ~Issued("status")
    /\ outcome = FAILURE

\* What the status step ends with, given its command: the command's result
\* when it is not success, success when the output is read, an exception
\* when the JSON read fails.
StatusStepResult(c) ==
    IF c.res # SUCCESS THEN c.res
    ELSE IF WellFormed(c.stdout) THEN SUCCESS
    ELSE EXCEPTION

C17_SuccessPublishesBoth ==
    (Done /\ outcome = SUCCESS) =>
        (props.got_revision # None /\ props.got_tags # None)

\* C17, amended: a run that ends with success has published what its status
\* output holds: both properties on the JSON path; on the text path
\* got_revision when there is a `checkout:` line and got_tags when there is a
\* `tags:` line.
C17_SuccessPublishesWhatStatusHolds ==
    (Done /\ outcome = SUCCESS) =>
        /\ Kind(Last) = "status" /\ Last.res = SUCCESS
        /\ Last.cmd = "json" =>
              /\ props.got_revision = Last.stdout.uuid /\ props.got_revision # None
              /\ props.got_tags = Last.stdout.tags /\ props.got_tags # None
        /\ Last.cmd = "status" =>
              /\ props.got_revision = Last.stdout.checkout
              /\ props.got_tags = Last.stdout.tags

C17_Witness ==
    /\ Done /\ outcome = SUCCESS
    /\ Last.cmd = "status"
    /\ Last.stdout.checkout # None /\ Last.stdout.tags = None
    /\ props.got_revision # None /\ props.got_tags = None

\* C18: on the text path a status command that succeeded ends the step with
\* success whatever its output; a property whose line is missing stays
\* unpublished, and the other one is published from its line all the same.
C18_MissingLineLeavesUnset ==
    (Done /\ cmds # <<>> /\ Last.cmd = "status" /\ Last.res = SUCCESS) =>
        /\ fossil_json = 0
        /\ outcome = SUCCESS /\ error = ""
        /\ Last.stdout.checkout = None => props.got_revision = None
        /\ Last.stdout.tags = None => props.got_tags = None
        /\ Last.stdout.checkout # None => props.got_revision = Last.stdout.checkout
        /\ Last.stdout.tags # None => props.got_tags = Last.stdout.tags

C18_Witness ==
    /\ Done /\ outcome = SUCCESS
    /\ Last.cmd = "status" /\ fossil_json = 0
    /\ Last.stdout.checkout = None /\ Last.stdout.tags # None
    /\ props.got_revision = None /\ props.got_tags = Last.stdout.tags

\* A command named n was issued before one named k.
Earlier(n, k) ==
    \E i, j \in 1..Len(cmds) : i < j /\ Names[i] = n /\ Names[j] = k

\* C19: pull, clone, clean, revert, open, checkout and status are each issued
\* once at most; no clean and no revert follows the removal of workdir; no
\* pull follows a clone; an open or a clone that failed is the last command
\* of the run, which ends with failure.
C19_OneHopPerFailure ==
    /\ \A n \in {"pull", "clone", "clean", "revert", "open", "checkout", "status"} :
          Count(n) <= 1
    /\ ~Earlier("rmdir", "clean") /\ ~Earlier("rmdir", "revert")
    /\ ~Earlier("clone", "pull")
    /\ \A i \in 1..Len(cmds) :
          (Names[i] \in {"open", "clone"} /\ cmds[i].res = FAILURE) =>
              /\ i = Len(cmds)
              /\ inflight = 0
              /\ pc \in {"fossil_open", "full_clean_clone", "done"}
              /\ Done => outcome = FAILURE

C19_Witness ==
    /\ Done /\ outcome = FAILURE
    /\ mode = "full" /\ method = "fresh"
    /\ Names = <<"version", "pull", "clean", "revert", "rmdir", "open">>
    /\ ResultOf("revert") = FAILURE /\ Last.res = FAILURE

Announced(text) == \E k \in 1..Len(headers) : headers[k] = <<text>>

\* Incremental mode found no repo and went on to clone.
AnnouncedIncrementalToClone ==
    (mode = "incremental" /\ Issued("clone")) =>
        Announced("no repo found, cloning")

\* Incremental mode failed to revert and went on to the copy method.
AnnouncedIncrementalToCopy ==
    (mode = "incremental" /\ ResultOf("revert") = FAILURE /\ Issued("rmdir")) =>
        Announced("failed to revert, using full/copy checkout")

\* The fresh method failed to clean or to revert and went on to copy.
AnnouncedFreshToCopy ==
    (mode = "full" /\ method = "fresh" /\ Issued("rmdir")
        /\ (ResultOf("clean") = FAILURE \/ ResultOf("revert") = FAILURE)) =>
        Announced("problem cleaning, falling back to full/copy")

\* Full mode with fresh or copy found no repo and went on to clobber: some
\* header besides those written at the start of every run says so.
AnnouncedToClobber ==
    (mode = "full" /\ method \in {"fresh", "copy"} /\ Issued("clone")) =>
        \E k \in 1..Len(headers) :
            headers[k] \notin {<<"checking fossil version">>,
                               <<"full/{} checkout", method>>}

\* C20: each strategy transition has its header in the log by the time the
\* first command of the next tier is issued: incremental to clone, incremental
\* to copy, fresh to copy, and fresh or copy to clobber.
C20_TransitionsAnnounced ==
    /\ AnnouncedIncrementalToClone
    /\ AnnouncedIncrementalToCopy
    /\ AnnouncedFreshToCopy
    /\ AnnouncedToClobber

\* The three transitions that incremental_clean and the fresh method make are
\* announced.
ThreeTransitionsAnnounced ==
    /\ AnnouncedIncrementalToClone
    /\ AnnouncedIncrementalToCopy
    /\ AnnouncedFreshToCopy

\* The commands issued and not completed.
Pending == {i \in 1..Len(cmds) : cmds[i].res = "pending"}

\* C21: one remote command at most is in flight: a command, fossil or
\* helper, is issued only when every command before it has completed.
C21_OneCommandInFlight ==
    /\ inflight \in {0, 1}
    /\ inflight = Cardinality(Pending)
    /\ \A i \in Pending : i = Len(cmds)

C21_Witness ==
    /\ inflight = 1
    /\ Names = <<"version", "rmfile", "clone", "rmdir">>
    /\ Last.res = "pending"
    /\ \A i \in 1..3 : cmds[i].res # "pending"

\* C22 as stated: a clone that failed in the clobber path is followed by the
\* version probe before the run reports failure.
C22_CloneFailureRunsProbe ==
    (Done /\ ResultOf("clone") = FAILURE) => Earlier("clone", "version")

\* C22, amended: a clone that failed in the clobber path ends the run with
\* the clone's result at once: it is the last command, and the version probe
\* ran once, as the first command of the run.
C22_CloneFailureEndsRun ==
    ResultOf("clone") = FAILURE =>
        /\ Names[Len(cmds)] = "clone"
        /\ Count("version") = 1 /\ Names[1] = "version"
        /\ ~Earlier("clone", "version")
        /\ pc \in {"full_clean_clone", "done"}
        /\ Done => (outcome = FAILURE /\ error = "")

C22_Witness ==
    /\ Done /\ outcome = FAILURE
    /\ mode = "full" /\ method = "clobber"
    /\ Names = <<"version", "rmfile", "clone">>
    /\ Last.res = FAILURE

\* The run went on with the clone file it found.
Reused == Issued("revert") \/ Issued("clean") \/ Issued("open") \/ Issued("checkout")

\* C23 as stated: a run that validated the repo and found a clone recording
\* another URL than repourl, or none it could read, ends having cloned again.
C23_DifferentSourceReclones ==
    (Done /\ Issued("pull") /\ outcome # CANCELLED /\ clone_remote # Some(REPOURL)) =>
        Issued("clone")

\* C23, amended: validation is a pull from repourl into the clone, whose
\* recorded URL is never read.  A pull that failed on a clone file that
\* exists ends the run with failure, the clone neither reused nor replaced;
\* the run clones again only when the pull failed and the file is absent; a
\* clone whose pull succeeded is kept.
C23_ValidationByPull ==
    /\ \A i \in 1..Len(cmds) :
          /\ cmds[i].cmd # "remote"
          /\ Names[i] = "pull" =>
                (cmds[i].argv = <<"pull", REPOURL, "-R", repopath>> /\ cmds[i].dir = BASEDIR)
    /\ (ResultOf("pull") = FAILURE /\ clone_remote # None /\ pc # "update_repo") =>
          /\ Names[Len(cmds)] = "stat"
          /\ ~Issued("clone") /\ ~Reused
          /\ pc \in {"update_repo_exists", "done"}
          /\ Done => outcome = FAILURE
    /\ (ResultOf("pull") = FAILURE /\ clone_remote = None
            /\ pc \notin {"update_repo", "update_repo_exists"}) =>
          Issued("clone")
    /\ ResultOf("pull") = SUCCESS => ~Issued("clone")

C23_Witness ==
    /\ Done /\ outcome = FAILURE
    /\ clone_remote = Some("https://fossil-scm.example/elsewhere")
    /\ Names = <<"version", "pull", "stat">>
    /\ ResultOf("pull") = FAILURE /\ Last.res = SUCCESS

\* C30: in full mode with fresh or copy the pull is the first command after
\* the probe, before anything is cleaned or removed; when it fails and the
\* stat finds no clone file the clone is issued next, with no rmfile, and
\* after a clone that succeeded workdir is removed and opened again, with
\* no clean, fresh or not.
C30_FullModeDemotesToClobber ==
    (mode = "full" /\ method \in {"fresh", "copy"}) =>
        /\ Len(cmds) >= 2 => Names[2] = "pull"
        /\ ~Issued("rmfile")
        /\ (ResultOf("pull") = FAILURE /\ ResultOf("stat") = FAILURE
                /\ pc # "update_repo_exists") =>
              /\ PrefixOfEither(<<"version", "pull", "stat", "clone">>)
              /\ Len(cmds) >= 4
              /\ ~Issued("clean") /\ ~Issued("revert")
              /\ (ResultOf("clone") = SUCCESS /\ pc # "full_clean_clone") =>
                    (Len(cmds) >= 5 /\ cmds[5].argv = <<"rmdir", workdir>>)
              /\ (ResultOf("rmdir") = SUCCESS /\ pc # "full_clean_rmdir") =>
                    (Issued("open") \/ Issued("mkdir"))
              /\ (ResultOf("mkdir") = SUCCESS /\ pc # "fossil_open_mkdir") =>
                    Issued("open")

C30_Witness ==
    /\ Done /\ outcome = SUCCESS
    /\ mode = "full" /\ method = "fresh"
    /\ Names = <<"version", "pull", "stat", "clone", "rmdir", "open", "checkout", "status">>
    /\ ResultOf("pull") = FAILURE /\ ResultOf("stat") = FAILURE

\* The last poll went through _process_changes and no restart followed.
Processed == ppc = "idle" /\ poll_result = "processed" /\ since_activate >= 1

\* How many times a revision was emitted by the current poll.
Emissions(rev) == Cardinality({i \in 1..Len(emitted) : emitted[i] = rev})

\* C24: of the feed a poll processed, a revision that was in the feed of the
\* poll that processed one before it is not emitted, and every other one is
\* emitted once; nothing else is emitted.
C24_PollIdempotent ==
    Processed =>
        /\ \A rev \in Range(feed) :
              Emissions(rev) = (IF rev \in Range(prev_feed) THEN 0 ELSE 1)
        /\ Range(emitted) \subseteq Range(feed)

C24_Witness ==
    /\ Processed /\ polls = 2
    /\ Len(feed) = 2 /\ Len(prev_feed) = 2
    /\ Cardinality(Range(feed) \cap Range(prev_feed)) = 1
    /\ Len(emitted) = 1

\* The seen-set, in memory and stored, is the feed of the poll, oldest first.
SeenIsFeed ==
    /\ last_fetch = Range(feed)
    /\ state.last_fetch = Some(Reverse(feed))

\* C25 as stated: after a poll that processed a feed the seen-set in memory
\* and the stored last_fetch are the revisions of that feed, oldest first,
\* and nothing else is ever stored.
C25_OnlyLastFetchStored ==
    /\ Processed => SeenIsFeed
    /\ state.login_cookie = None

\* C25, amended: after a poll that processed a feed the seen-set in memory
\* and the stored last_fetch are the revisions of that feed, oldest first,
\* with nothing kept from earlier polls; besides last_fetch the poller stores
\* the login cookie, in JSON mode only, once a login has succeeded.
C25_SeenSetIsLastFeed ==
    /\ Processed =>
          /\ SeenIsFeed
          /\ \A rev \in Range(prev_feed) \ Range(feed) : rev \notin last_fetch
    /\ state.login_cookie # None =>
          /\ ~rss
          /\ Len(state.login_cookie[1]) = 3

C25_Witness ==
    /\ Processed /\ polls = 2
    /\ Len(feed) = 1 /\ Len(prev_feed) = 2
    /\ Range(feed) \cap Range(prev_feed) = {}
    /\ Cardinality(last_fetch) = 1
    /\ state.login_cookie # None

\* Where a revision stands in a feed.
PlaceIn(f, rev) == CHOOSE i \in 1..Len(f) : f[i] = rev

\* C26: in both modes the changes of a poll are emitted oldest first: the
\* other way round than the feed, which lists them newest first.
C26_EmittedOldestFirst ==
    Processed =>
        /\ \A i, j \in 1..Len(emitted) :
              i < j => PlaceIn(feed, emitted[i]) > PlaceIn(feed, emitted[j])
        /\ before.last_fetch = {} => emitted = Reverse(feed)

C26_Witness ==
    /\ Processed /\ rss
    /\ Len(feed) = 2 /\ Len(emitted) = 2
    /\ emitted[1] = feed[2] /\ emitted[2] = feed[1]

\* The list stored under last_fetch, [] when nothing is.
StoredLastFetch == IF state.last_fetch = None THEN <<>> ELSE state.last_fetch[1]

\* C27: activate loads the stored last_fetch, so the first poll after a
\* restart emits no revision that the last poll to store its feed before the
\* restart had stored.
C27_SeenSetSurvivesRestart ==
    /\ (ppc = "idle" /\ since_activate = 0) => last_fetch = Range(StoredLastFetch)
    /\ (Processed /\ since_activate = 1) =>
          \A rev \in Range(prev_feed) : Emissions(rev) = 0
    /\ (since_activate = 1 /\ ppc \in {"fetch_json", "fetch_rss"}) =>
          last_fetch = Range(prev_feed)

C27_Witness ==
    /\ Processed /\ polls = 2 /\ since_activate = 1
    /\ Len(feed) = 2
    /\ Cardinality(Range(feed) \cap Range(prev_feed)) = 1
    /\ Len(emitted) = 1

Paths == [i \in 1..Len(requests) |-> requests[i].path]

LoginProtocol ==
    <<"/json/timeline/checkin", "/json/anonymousPassword", "/json/login",
      "/json/timeline/checkin">>

\* C28: in JSON mode an authentication error answering the timeline request
\* is followed by the anonymous password request, the login post and, the
\* cookie being set and stored, one more timeline request; a poll logs in
\* once at most, and an authentication error answering the second timeline
\* request ends the poll.
C28_LoginOnceThenRetry ==
    ~rss =>
        /\ IsPrefix(Paths, LoginProtocol)
        /\ \A i \in 1..Len(requests) :
              requests[i].verb = (IF i = 3 THEN "post" ELSE "get")
        /\ (Len(requests) >= 1 /\ requests[1].resp # "pending") =>
              (Len(requests) >= 2 <=> requests[1].resp = "JSONAuthError")
        /\ (Len(requests) >= 2 /\ requests[2].resp # "pending") =>
              (Len(requests) >= 3 <=> requests[2].resp = "ok")
        /\ (Len(requests) >= 3 /\ requests[3].resp # "pending") =>
              (Len(requests) = 4 <=> requests[3].resp = "ok")
        /\ Len(requests) = 4 =>
              /\ state.login_cookie # None
              /\ ppc \in {"fetch_json_retry", "idle"} => http_cookie = state.login_cookie
              /\ requests[4].resp = "JSONAuthError" =>
                    (ppc # "fetch_json_retry" /\ poll_result = "logged" /\ emitted = <<>>)

C28_Witness ==
    /\ ~rss /\ ppc = "idle" /\ poll_result = "logged"
    /\ Len(requests) = 4
    /\ requests[1].resp = "JSONAuthError" /\ requests[4].resp = "JSONAuthError"
    /\ state.login_cookie = Some(<<"fossil-42b934f2ab", "=", "b7ef66">>)

\* The poll ended, and the poller was not restarted since.
PollEnded == ppc = "idle" /\ poll_result # "" /\ since_activate >= 1

SeenSetUntouched ==
    /\ last_fetch = before.last_fetch
    /\ state.last_fetch = before.state

\* C29 as stated: a JSON poll one of whose timeline requests was answered
\* with an HTTP error or a JSON error envelope logs the error, emits nothing
\* and leaves the seen-set as it was.
C29_JsonErrorLeavesSeenSet ==
    (~rss /\ PollEnded
        /\ \E i \in 1..Len(requests) :
              /\ requests[i].path = "/json/timeline/checkin"
              /\ requests[i].resp \in {"HTTPError", "JSONError", "JSONAuthError"}) =>
        (poll_result = "logged" /\ emitted = <<>> /\ SeenSetUntouched)

\* C29, amended: a JSON poll whose timeline request was answered with an
\* HTTP error or a JSON error envelope, other than an authentication error
\* answering the first request of the poll (which starts the login), logs
\* the error, emits nothing and leaves the seen-set as it was.
C29_JsonErrorButFirstAuth ==
    (~rss /\ PollEnded
        /\ \E i \in 1..Len(requests) :
              /\ requests[i].path = "/json/timeline/checkin"
              /\ \/ requests[i].resp \in {"HTTPError", "JSONError"}
                 \/ (requests[i].resp = "JSONAuthError" /\ i > 1)) =>
        (poll_result = "logged" /\ emitted = <<>> /\ SeenSetUntouched)

C29_Witness ==
    /\ ~rss /\ PollEnded /\ polls = 2
    /\ requests = <<[verb |-> "get", path |-> "/json/timeline/checkin", resp |-> "JSONError"]>>
    /\ poll_result = "logged" /\ emitted = <<>>
    /\ Cardinality(last_fetch) = 2

\* No pull that succeeded comes before the command at place i.
NoGoodPullBefore(i) ==
    \A j \in 1..(i - 1) : ~(Names[j] = "pull" /\ cmds[j].res = SUCCESS)

\* C31 as stated: a clone is issued right after a stat that reported the
\* clone file absent or after a removal of the clone file that succeeded,
\* and never after a pull that succeeded.
C31_CloneOverAbsentFile ==
    \A i \in 1..Len(cmds) :
        Names[i] = "clone" =>
            /\ i > 1
            /\ \/ (Names[i - 1] = "stat" /\ cmds[i - 1].res = FAILURE)
               \/ (Names[i - 1] = "rmfile" /\ cmds[i - 1].res = SUCCESS)
            /\ NoGoodPullBefore(i)

\* C31, amended: a clone is issued right after a stat that reported the
\* clone file absent or after a removal of the clone file that completed,
\* with success or with a failure that is tolerated; and never after a pull
\* that succeeded.
C31_CloneAfterStatOrRemoval ==
    \A i \in 1..Len(cmds) :
        Names[i] = "clone" =>
            /\ i > 1
            /\ cmds[i].argv = <<"clone", REPOURL, repopath>>
            /\ \/ /\ Names[i - 1] = "stat" /\ cmds[i - 1].res = FAILURE
                  /\ cmds[i - 1].argv = <<"stat", repopath>>
                  /\ i > 2 /\ Names[i - 2] = "pull" /\ cmds[i - 2].res = FAILURE
               \/ /\ Names[i - 1] = "rmfile" /\ cmds[i - 1].res \in {SUCCESS, FAILURE}
                  /\ cmds[i - 1].argv = <<"rmfile", repopath>>
                  /\ mode = "full" /\ method = "clobber"
            /\ NoGoodPullBefore(i)

C31_Witness ==
    /\ Done /\ outcome = SUCCESS
    /\ mode = "full" /\ method = "clobber"
    /\ ResultOf("rmfile") = FAILURE /\ ResultOf("clone") = SUCCESS
    /\ clone_remote # None

\* The places of the fossil commands among the commands issued.
FossilPlaces == {i \in 1..Len(cmds) : cmds[i].kind = "fossil"}

\* C32: every fossil command carries the env and the timeout of the step; a
\* fossil command issued after one that completed without being cancelled
\* has environment logging off, so only the first fossil command of a run
\* may have it on, and it has it as configured.
C32_EnvironLoggedOnce ==
    \A i \in FossilPlaces :
        /\ cmds[i].env = env /\ cmds[i].timeout = timeout
        /\ (\E j \in FossilPlaces : j < i /\ cmds[j].res \in {SUCCESS, FAILURE}) =>
              ~cmds[i].logEnviron
        /\ cmds[i].logEnviron => (\A j \in FossilPlaces : j >= i)
        /\ (i = 1 /\ pc = "check_fossil_version" /\ cmds[i].res = "pending") =>
              cmds[i].logEnviron = logEnviron

C32_Witness ==
    /\ Done /\ outcome = SUCCESS
    /\ env = Some("LANG=C") /\ timeout = 60
    /\ Cardinality(FossilPlaces) >= 5
    /\ cmds[1].logEnviron /\ ~cmds[2].logEnviron /\ ~Last.logEnviron
    /\ Last.env = Some("LANG=C") /\ Last.timeout = 60

\* The command at place i has the name n and succeeded.
Succeeded(i, n) == i >= 1 /\ Names[i] = n /\ cmds[i].res = SUCCESS

\* C33: workdir is removed only after a pull or a clone that succeeded; an
\* open comes right after a removal of workdir that succeeded, with a mkdir
\* of workdir that succeeded in between when fossil has no `open --workdir`.
C33_OpenOverRemovedWorkdir ==
    \A i \in 1..Len(cmds) :
        /\ Names[i] = "rmdir" =>
              /\ cmds[i].argv = <<"rmdir", workdir>>
              /\ \E j \in 1..(i - 1) : Succeeded(j, "pull") \/ Succeeded(j, "clone")
        /\ Names[i] = "mkdir" =>
              /\ cmds[i].argv = <<"mkdir", workdir>>
              /\ Succeeded(i - 1, "rmdir")
              /\ fossil_version < HAS_OPEN_WORKDIR
        /\ Names[i] = "open" =>
              IF fossil_version >= HAS_OPEN_WORKDIR
              THEN Succeeded(i - 1, "rmdir")
              ELSE Succeeded(i - 1, "mkdir") /\ Succeeded(i - 2, "rmdir")

C33_Witness ==
    /\ Done /\ outcome = SUCCESS /\ mode = "incremental"
    /\ fossil_version < HAS_OPEN_WORKDIR
    /\ Names = <<"version", "pull", "revert", "rmdir", "mkdir", "open",
                 "checkout", "status">>

\* A command named n that failed comes before the command at place i.
FailedBefore(i, n) ==
    \E j \in 1..(i - 1) : Names[j] = n /\ cmds[j].res = FAILURE

\* C34: the clone file is removed only in full mode with the clobber method;
\* `clean --verily` is issued only in full mode with the fresh method; in
\* incremental mode workdir is removed only after the stat of the clone file
\* failed or after the revert failed.
C34_DestructionByStrategy ==
    \A i \in 1..Len(cmds) :
        /\ Names[i] = "rmfile" => (mode = "full" /\ method = "clobber")
        /\ Names[i] = "clean" =>
              /\ mode = "full" /\ method = "fresh"
              /\ cmds[i].argv = <<"clean", "--verily">>
        /\ (Names[i] = "rmdir" /\ mode = "incremental") =>
              (FailedBefore(i, "stat") \/ FailedBefore(i, "revert"))

C34_Witness ==
    /\ Done /\ outcome = SUCCESS /\ mode = "incremental"
    /\ clone_remote = None
    /\ Names = <<"version", "pull", "stat", "clone", "rmdir", "open",
                 "checkout", "status">>

\* C35: a checkout comes right after the command that prepared workdir last,
\* which succeeded: the revert (incremental mode and the fresh method, when
\* they did not fall back) or the open (the copy and clobber methods, and
\* every fallback); the version probe succeeded and was understood; a status
\* comes right after a checkout that succeeded.
C35_CheckoutOverPreparedWorkdir ==
    \A i \in 1..Len(cmds) :
        /\ Names[i] = "checkout" =>
              /\ Succeeded(1, "version") /\ VersionMatches(cmds[1].stdout)
              /\ Succeeded(i - 1, "revert") \/ Succeeded(i - 1, "open")
              /\ Names[i - 1] = "revert" =>
                    (mode = "incremental" \/ (mode = "full" /\ method = "fresh"))
              /\ (mode = "full" /\ method \in {"copy", "clobber"}) =>
                    Names[i - 1] = "open"
              /\ \A j \in 1..(i - 1) :
                    Names[j] \in {"revert", "open"} => (j = i - 1 \/ Names[i - 1] = "open")
        /\ Names[i] = "status" => Succeeded(i - 1, "checkout")

C35_Witness ==
    /\ Done /\ outcome = SUCCESS /\ mode = "full" /\ method = "fresh"
    /\ Names = <<"version", "pull", "clean", "revert", "checkout", "status">>

\* The command at place i is the last one, and the run it ended, once it has
\* ended, ended with failure and no exception of another kind.
EndsRunWithFailure(i) ==
    /\ i = Len(cmds)
    /\ pc \in {"full_clean_rmdir", "fossil_open_mkdir", "fossil_open", "done"}
    /\ Done => (outcome = FAILURE /\ error = "")

\* C36: a removal of workdir that failed, and a mkdir of workdir that failed
\* (fossil without `open --workdir`), is the last command of the run, which
\* ends with failure: no open, checkout or status is issued; an open that
\* failed is the last command too, and the run ends with failure.
C36_FailedHelperStopsRun ==
    \A i \in 1..Len(cmds) :
        /\ (Names[i] \in {"rmdir", "mkdir"} /\ cmds[i].res = FAILURE) =>
              /\ EndsRunWithFailure(i)
              /\ ~Issued("open") /\ ~Issued("checkout") /\ ~Issued("status")
        /\ (Names[i] = "open" /\ cmds[i].res = FAILURE) =>
              /\ EndsRunWithFailure(i)
              /\ ~Issued("checkout") /\ ~Issued("status")

C36_Witness ==
    /\ Done /\ outcome = FAILURE
    /\ fossil_version < HAS_OPEN_WORKDIR
    /\ Names[Len(cmds)] = "mkdir" /\ Last.res = FAILURE
    /\ ResultOf("rmdir") = SUCCESS

\* The step is over: the configuration was rejected, or run_vc ended.
Over == pc \in {"rejected", "done"}

\* C37: a run issues 9 remote commands at most, fossil commands and helpers
\* together; when every command completes the step comes to an end, and a
\* run ends with success, failure, cancelled or exception.
C37_RunTerminates ==
    /\ [](Len(cmds) <= 9)
    /\ [](Done => outcome \in {SUCCESS, FAILURE, CANCELLED, EXCEPTION})
    /\ [](~Done => outcome = "")
    /\ <>[]Over

C37_Witness ==
    /\ Done /\ outcome = SUCCESS
    /\ Len(cmds) = 9
    /\ mode = "full" /\ method = "fresh"
    /\ Names = <<"version", "pull", "clean", "revert", "rmdir", "mkdir", "open",
                 "checkout", "status">>

\* v comes before w in the lexicographic order of dotted versions: at the
\* first place where they differ v has the smaller number, or v ends there.
LexLess(v, w) ==
    \E k \in 1..Len(w) :
        /\ k <= Len(v) + 1
        /\ \A j \in 1..(k - 1) : v[j] = w[j]
        /\ k > Len(v) \/ v[k] < w[k]

\* The first three numbers of a dotted version.
FirstThree(v) == SubSeq(v, 1, IF Len(v) < 3 THEN Len(v) ELSE 3)

\* The dotted versions of three numbers at most.
ShortVersions == UNION {[1..n -> Components] : n \in 1..3}

\* C38: the number stored for a version of numbers below 100 depends on its
\* first three numbers only and keeps their order: a version of three
\* numbers at most that comes before them encodes to no more, one that comes
\* after to no less; so the number is at least 21200 exactly when the
\* version is 2.12 or comes after it.
C38_EncodingKeepsOrder ==
    LET out == cmds[1].stdout
        v == FirstThree(out.ver)
        stored == pc # "check_fossil_version" /\ VersionMatches(out)
    IN  stored =>
            /\ \A w \in ShortVersions :
                  /\ LexLess(w, v) => EncodeVersion(w) <= fossil_version
                  /\ LexLess(v, w) => fossil_version <= EncodeVersion(w)
                  /\ w = v => EncodeVersion(w) = fossil_version
            /\ fossil_version >= 21200 <=> ~LexLess(v, <<2, 12>>)
            /\ HAS_OPEN_WORKDIR = 21200

C38_Witness ==
    /\ pc # "check_fossil_version"
    /\ cmds[1].stdout.banner /\ cmds[1].stdout.ver = <<2, 8, 99, 15>>
    /\ fossil_version = 20899

\* The revisions of an optional stored list, none when nothing is stored.
StoredRevs(stored) == IF stored = None THEN {} ELSE Range(stored[1])

\* C39: in RSS mode a poll whose request for the feed was answered with an
\* HTTP error emits nothing and leaves the seen-set as it was when the poll
\* began, in memory and in the stored state.
C39_RssErrorKeepsSeenSet ==
    (rss /\ PollEnded /\ requests[Len(requests)].resp = "HTTPError") =>
        /\ emitted = <<>>
        /\ last_fetch = before.last_fetch
        /\ StoredRevs(state.last_fetch) = StoredRevs(before.state)

\* A property is left published by a run that did not succeed only on the
\* JSON path, by a payload whose checkout holds a uuid and no tags.
PartialPublication ==
    (Done /\ outcome # SUCCESS /\ props # NoProps) =>
        /\ outcome = EXCEPTION
        /\ Last.cmd = "json" /\ Last.res = SUCCESS
        /\ Last.stdout.envelope /\ Last.stdout.tags = None
        /\ props = [got_revision |-> Last.stdout.uuid, got_tags |-> None]

=============================================================================
